---- MODULE Spec2Model ----
(***************************************************************************)
(* Fraud Signal Engine of the hippocratic repository.                      *)
(*                                                                         *)
(* Structural pipeline (src/analysis/network_analysis.py):                 *)
(*   build_network -> analyze_components -> compute_fraud_scores           *)
(*                                                                         *)
(* Conventions of the translation                                          *)
(*   - a Python str is a sequence of one-character strings; the Python     *)
(*     None of a str-valued field is the one-element sequence None, which  *)
(*     is no string because "None" is not one character;                   *)
(*   - an optional int (revenue, net_income, visits) is <<>> for None and  *)
(*     <<v>> for the int v;                                                *)
(*   - a node id f"fac:{id}", f"owner:{key}", ... is the pair              *)
(*     <<"fac", id>>, <<"owner", key>>, ...: the prefixes are fixed and    *)
(*     distinct, so n.startswith("fac:") is n[1] = "fac";                  *)
(*   - floats are fixed point: the factors 1.0/1.5/2.0 and 1.0/1.2 are     *)
(*     kept in tenths (10/15/20, 10/12), (1 + shared_types * 0.5) in       *)
(*     halves, and the score in 200ths (score 3 is 600, 4.5 is 900,        *)
(*     19.2 is 3840).  The IEEE product differs from the exact one by at   *)
(*     most one unit in the last place and never across the threshold 3;   *)
(*   - the node attributes name, category and in_service, avg_revenue and  *)
(*     the printed statistics are not read by any scoring decision and     *)
(*     are left out.                                                       *)
(***************************************************************************)
EXTENDS Integers, Sequences, FiniteSets, TLC

VARIABLES
    facilities,      \* the list passed to build_network
    financial_data,  \* the lookup passed to build_network
    fi,              \* build_network: number of records iterated
    G,               \* the nx.Graph: [order, data, edges]
    pc,              \* "build" | "analyze" | "score" | "done" | "error"
    components,      \* the list returned by analyze_components
    ci,              \* compute_fraud_scores: number of components iterated
    scores,          \* compute_fraud_scores: the dict `scores`, keyed by i
    locals,          \* compute_fraud_scores: the loop body's locals, per i
    norm,            \* a normalizer under call: [fn, args, results]
    db,              \* the SQLite database, as committed: the tables, the
                     \* AUTOINCREMENT sequence of fraud_alerts, and the time
    run,             \* a FinancialAnalyzer method under call
    ml               \* MLFraudDetector: the detectors' predictions and the votes

analyzer_vars == <<db, run, ml>>

vars == <<facilities, financial_data, fi, G, pc, components, ci, scores, locals, norm,
          db, run, ml>>

-----------------------------------------------------------------------------
(* Bounds of the model *)

\* build_network: the longest input list
MaxFacilities == 3

\* build_network: the most attribute fields (businessName, contactEmail,
\* phone, address) one input record has
MaxAttributes == 2

\* the raw inputs: the most attribute fields one input record has
MaxRawAttributes == 1

\* the normalizer calls: the most digits of a raw phone behind its
\* country code
MaxLocalDigits == 10

\* the normalizer calls: the longest raw text
MaxTextLen == 4

\* the cluster inputs: the most facilities of one cluster
MaxClusterFacilities == 12

\* the cluster inputs: the most facilities of the smaller cluster, and the
\* most distinct phones, addresses and admins of a cluster
MaxSmallCluster == 3

-----------------------------------------------------------------------------
(* Python values *)

None == <<"None">>

NoneInt == <<>>

Some(v) == <<v>>

\* the None of a dict-valued result; a dict d is <<d>>
NoFin == <<>>

\* truthiness of a str | None
Truthy(s) == s # None /\ s # <<>>

\* truthiness of an int | None
TruthyInt(x) == x # NoneInt /\ x[1] # 0

\* x or 0
OrZero(x) == IF TruthyInt(x) THEN x[1] ELSE 0

Whitespace == {" ", "\t", "\n"}

Digits == {"0", "1", "2", "3", "4", "5", "6", "7", "8", "9"}

UpperChars == <<"A","B","C","D","E","F","G","H","I","J","K","L","M",
                "N","O","P","Q","R","S","T","U","V","W","X","Y","Z">>

LowerChars == <<"a","b","c","d","e","f","g","h","i","j","k","l","m",
                "n","o","p","q","r","s","t","u","v","w","x","y","z">>

LowerChar(c) ==
    IF \E i \in 1..26 : UpperChars[i] = c
    THEN LowerChars[CHOOSE i \in 1..26 : UpperChars[i] = c]
    ELSE c

\* str.lower()
Lower(s) == [i \in 1..Len(s) |-> LowerChar(s[i])]

\* faulty variant: one leading whitespace character is removed, not all
LStrip_Once(s) ==
    IF s # <<>> /\ Head(s) \in Whitespace THEN Tail(s) ELSE s

RECURSIVE LStrip(_)
LStrip(s) ==
    IF s # <<>> /\ Head(s) \in Whitespace THEN LStrip(Tail(s)) ELSE s

RECURSIVE RStrip(_)
RStrip(s) ==
    IF s # <<>> /\ s[Len(s)] \in Whitespace
    THEN RStrip(SubSeq(s, 1, Len(s) - 1))
    ELSE s

\* str.strip()
Strip(s) == RStrip(LStrip(s))

\* s[:n]
Prefix(s, n) == SubSeq(s, 1, IF Len(s) < n THEN Len(s) ELSE n)

\* re.sub(r"[^0-9]", "", s)
DigitsOf(s) == SelectSeq(s, LAMBDA c : c \in Digits)

\* sep.join(parts)
RECURSIVE Join(_, _)
Join(sep, parts) ==
    IF parts = <<>> THEN <<>>
    ELSE IF Len(parts) = 1 THEN parts[1]
    ELSE parts[1] \o sep \o Join(sep, Tail(parts))

-----------------------------------------------------------------------------
(* The attribute normalizers *)

\* faulty variant: the last 10 digits are kept, a country code is dropped
normalize_phone_Last10(phone) ==
    IF ~Truthy(phone) THEN None
    ELSE LET digits == DigitsOf(phone)
         IN  IF Len(digits) >= 10
             THEN SubSeq(digits, Len(digits) - 9, Len(digits))
             ELSE None

normalize_phone(phone) ==
    IF ~Truthy(phone) THEN None
    ELSE LET digits == DigitsOf(phone)
         IN  IF Len(digits) >= 10 THEN digits ELSE None

normalize_address(address, city, zip_code) ==
    LET parts == (IF Truthy(address) THEN <<Strip(Lower(address))>> ELSE <<>>)
              \o (IF Truthy(city) THEN <<Strip(Lower(city))>> ELSE <<>>)
              \o (IF Truthy(zip_code) THEN <<Prefix(Strip(zip_code), 5)>> ELSE <<>>)
    IN  IF parts # <<>> THEN Join(<<"|">>, parts) ELSE None

\* faulty variant: `>= 2` for `> 2`, a text of two characters is kept
normalize_text_AtLeast2(text) ==
    IF ~Truthy(text) THEN None
    ELSE LET normalized == Strip(Lower(text))
         IN  IF Len(normalized) >= 2 THEN normalized ELSE None

normalize_text(text) ==
    IF ~Truthy(text) THEN None
    ELSE LET normalized == Strip(Lower(text))
         IN  IF Len(normalized) > 2 THEN normalized ELSE None

-----------------------------------------------------------------------------
(* The graph (nx.Graph): order is the insertion order of the nodes, data the
   node attributes, edges the attribute edge_type of each undirected edge,
   an edge being the set of its two end nodes. *)

EmptyGraph == [order |-> <<>>, data |-> << >>, edges |-> << >>]

Nodes(g) == {g.order[i] : i \in 1..Len(g.order)}

Edges(g) == DOMAIN g.edges

\* G.add_node(n, **attrs): attributes of an existing node are overwritten
add_node(g, n, attrs) ==
    IF n \in Nodes(g)
    THEN [g EXCEPT !.data = (n :> attrs) @@ g.data]
    ELSE [g EXCEPT !.order = Append(g.order, n),
                   !.data = (n :> attrs) @@ g.data]

\* G.add_edge(u, v, edge_type=t), both nodes being in the graph
add_edge(g, u, v, t) ==
    [g EXCEPT !.edges = ({u, v} :> t) @@ g.edges]

FacNode(fac_id) == <<"fac", fac_id>>

IsFac(n) == n[1] = "fac"

\* "@" in s
HasAt(s) == \E i \in 1..Len(s) : s[i] = "@"

\* the record found, as <<record>>, or NoFin for None
get_financial_for_facility(f, fin_data) ==
    IF Truthy(f.id) /\ <<"fac", f.id>> \in DOMAIN fin_data
    THEN <<fin_data[<<"fac", f.id>>]>>
    ELSE IF Truthy(f.licenseNumber) /\ <<"lic", f.licenseNumber>> \in DOMAIN fin_data
    THEN <<fin_data[<<"lic", f.licenseNumber>>]>>
    ELSE NoFin

\* visits = mc_visits + medicare_visits if (mc_visits or medicare_visits) else None
VisitsOf(fin) ==
    IF fin = NoFin THEN NoneInt
    ELSE LET mc_visits == OrZero(fin[1].medi_cal_visits)
             medicare_visits == OrZero(fin[1].medicare_visits)
         IN  IF mc_visits # 0 \/ medicare_visits # 0
             THEN Some(mc_visits + medicare_visits)
             ELSE NoneInt

\* faulty variant: the edge is added only when the node is created
Connect_EdgeOnCreateOnly(g, fac_id, prefix, type, key, linked) ==
    IF ~linked THEN g
    ELSE LET node == <<prefix, key>>
         IN  IF node \notin Nodes(g)
             THEN add_edge(add_node(g, node, [node_type |-> type, name |-> key]),
                           FacNode(fac_id), node, type)
             ELSE g

\* faulty variant: the node id is the prefix alone, without the normalized value
Connect_PrefixOnly(g, fac_id, prefix, type, key, linked) ==
    IF ~linked THEN g
    ELSE LET node == <<prefix, <<>>>>
             g1 == IF node \notin Nodes(g)
                   THEN add_node(g, node, [node_type |-> type, name |-> key])
                   ELSE g
         IN  add_edge(g1, FacNode(fac_id), node, type)

\* faulty variant: the node id holds the facility id too
Connect_NodePerFacility(g, fac_id, prefix, type, key, linked) ==
    IF ~linked THEN g
    ELSE LET node == <<prefix, fac_id \o <<":">> \o key>>
             g1 == IF node \notin Nodes(g)
                   THEN add_node(g, node, [node_type |-> type, name |-> key])
                   ELSE g
         IN  add_edge(g1, FacNode(fac_id), node, type)

\* faulty variant: the edge carries the prefix of the node id as its edge_type
Connect_EdgeTypedByPrefix(g, fac_id, prefix, type, key, linked) ==
    IF ~linked THEN g
    ELSE LET node == <<prefix, key>>
             g1 == IF node \notin Nodes(g)
                   THEN add_node(g, node, [node_type |-> type, name |-> key])
                   ELSE g
         IN  add_edge(g1, FacNode(fac_id), node, prefix)

\* faulty variant: the edge is added only when the node is already there
Connect_EdgeOnReuseOnly(g, fac_id, prefix, type, key, linked) ==
    IF ~linked THEN g
    ELSE LET node == <<prefix, key>>
         IN  IF node \notin Nodes(g)
             THEN add_node(g, node, [node_type |-> type, name |-> key])
             ELSE add_edge(g, FacNode(fac_id), node, type)

\* the attribute connection of one type: the node is created on first
\* encounter only, the edge is added every time
Connect(g, fac_id, prefix, type, key, linked) ==
    IF ~linked THEN g
    ELSE LET node == <<prefix, key>>
             g1 == IF node \notin Nodes(g)
                   THEN add_node(g, node, [node_type |-> type, name |-> key])
                   ELSE g
         IN  add_edge(g1, FacNode(fac_id), node, type)

\* faulty variant: `if admin`, any normalized text is linked
AdminLinked_AnyText(admin) == Truthy(admin)

\* if admin and "@" in admin
AdminLinked(admin) == Truthy(admin) /\ HasAt(admin)

\* faulty variant: `if fac_id is None`, an empty id is given a node
AddFacility_SkipNullOnly(g, f, fin_data) ==
    IF f.id = None THEN g
    ELSE
      LET fin == get_financial_for_facility(f, fin_data)
          g0 == add_node(g, FacNode(f.id),
                    [node_type |-> "facility",
                     revenue |-> IF fin # NoFin THEN fin[1].total_revenue ELSE NoneInt,
                     net_income |-> IF fin # NoFin THEN fin[1].net_income ELSE NoneInt,
                     visits |-> VisitsOf(fin),
                     has_financial |-> fin # NoFin])
          owner == normalize_text(f.businessName)
          g1 == Connect(g0, f.id, "owner", "owner", owner, Truthy(owner))
          admin == normalize_text(f.contactEmail)
          g2 == Connect(g1, f.id, "admin", "admin", admin, AdminLinked(admin))
          phone == normalize_phone(f.phone)
          g3 == Connect(g2, f.id, "phone", "phone", phone, Truthy(phone))
          addr == normalize_address(f.address, f.city, f.zip)
      IN  Connect(g3, f.id, "addr", "address", addr, Truthy(addr))

\* one iteration of the loop `for f in facilities` of build_network
AddFacility(g, f, fin_data) ==
    IF ~Truthy(f.id) THEN g
    ELSE
      LET fin == get_financial_for_facility(f, fin_data)
          g0 == add_node(g, FacNode(f.id),
                    [node_type |-> "facility",
                     revenue |-> IF fin # NoFin THEN fin[1].total_revenue ELSE NoneInt,
                     net_income |-> IF fin # NoFin THEN fin[1].net_income ELSE NoneInt,
                     visits |-> VisitsOf(fin),
                     has_financial |-> fin # NoFin])
          owner == normalize_text(f.businessName)
          g1 == Connect(g0, f.id, "owner", "owner", owner, Truthy(owner))
          admin == normalize_text(f.contactEmail)
          g2 == Connect(g1, f.id, "admin", "admin", admin, AdminLinked(admin))
          phone == normalize_phone(f.phone)
          g3 == Connect(g2, f.id, "phone", "phone", phone, Truthy(phone))
          addr == normalize_address(f.address, f.city, f.zip)
      IN  Connect(g3, f.id, "addr", "address", addr, Truthy(addr))

\* the graph after the first n records of the list fs
RECURSIVE BuildPrefix(_, _, _)
BuildPrefix(fs, fin_data, n) ==
    IF n = 0 THEN EmptyGraph
    ELSE AddFacility(BuildPrefix(fs, fin_data, n - 1), fs[n], fin_data)

\* the graph build_network returns
build_network(fs, fin_data) == BuildPrefix(fs, fin_data, Len(fs))

-----------------------------------------------------------------------------
(* analyze_components *)

\* faulty variant: the neighbours of the start node only, no traversal
Reach_OneStep(g, S) ==
    S \cup {m \in Nodes(g) : \E n \in S : {n, m} \in Edges(g)}

RECURSIVE Reach(_, _)
Reach(g, S) ==
    LET N == S \cup {m \in Nodes(g) : \E n \in S : {n, m} \in Edges(g)}
    IN  IF N = S THEN S ELSE Reach(g, N)

\* nx.connected_components(G): the component of each node not seen yet, in
\* the order of the nodes of G
RECURSIVE ComponentsFrom(_, _, _)
ComponentsFrom(g, i, seen) ==
    IF i > Len(g.order) THEN <<>>
    ELSE IF g.order[i] \in seen THEN ComponentsFrom(g, i + 1, seen)
    ELSE LET c == Reach(g, {g.order[i]})
         IN  <<c>> \o ComponentsFrom(g, i + 1, seen \cup c)

connected_components(g) == ComponentsFrom(g, 1, {})

\* insertion of c behind every component at least as large: the stable
\* descending order of list.sort(key=len, reverse=True)
RECURSIVE InsertBySize(_, _)
InsertBySize(sorted, c) ==
    IF sorted = <<>> THEN <<c>>
    ELSE IF Cardinality(Head(sorted)) >= Cardinality(c)
    THEN <<Head(sorted)>> \o InsertBySize(Tail(sorted), c)
    ELSE <<c>> \o sorted

RECURSIVE SortBySizeDesc(_, _)
SortBySizeDesc(cs, sorted) ==
    IF cs = <<>> THEN sorted
    ELSE SortBySizeDesc(Tail(cs), InsertBySize(sorted, Head(cs)))

\* the list analyze_components returns, when it returns
analyze_components(g) == SortBySizeDesc(connected_components(g), <<>>)

\* min(sizes) and max(sizes) raise ValueError on the empty list
AnalyzeRaises(g) == g.order = <<>>

-----------------------------------------------------------------------------
(* compute_fraud_scores *)

\* sum(xs), xs being given as a function from its positions to its values
RECURSIVE SumInts(_)
SumInts(xs) ==
    IF DOMAIN xs = {} THEN 0
    ELSE LET x == CHOOSE y \in DOMAIN xs : TRUE
         IN  xs[x] + SumInts([y \in DOMAIN xs \ {x} |-> xs[y]])

\* [n for n in comp if n.startswith(prefix)]; comp is a set, so the list
\* holds each node once and only its length and members are used
WithPrefix(comp, prefix) == {n \in comp : n[1] = prefix}

\* sum(revenues) if revenues else 0, over the truthy revenues
TotalRevenue(g, facs) ==
    SumInts([n \in {m \in facs : TruthyInt(g.data[m].revenue)} |->
                g.data[n].revenue[1]])

\* sum(visits_list) if visits_list else 0, over the truthy visits
TotalVisits(g, facs) ==
    SumInts([n \in {m \in facs : TruthyInt(g.data[m].visits)} |->
                g.data[n].visits[1]])

\* faulty variant: `ni <= 0` for `ni < 0`
AnyNegativeIncome_NonPositive(g, facs) ==
    \E n \in facs : g.data[n].net_income # NoneInt /\ g.data[n].net_income[1] <= 0

\* net_incomes and any(ni < 0 for ni in net_incomes), net_incomes holding
\* the net_income of the facilities where it is not None
AnyNegativeIncome(g, facs) ==
    \E n \in facs : g.data[n].net_income # NoneInt /\ g.data[n].net_income[1] < 0

\* faulty variant: `>=` for `>`, a 1:1 mapping counted as sharing
SharedFlag_AtLeast(n_facilities, n_xs) ==
    IF n_xs > 0 /\ n_facilities >= n_xs THEN 1 ELSE 0

\* faulty variant: the comparison turned round
SharedFlag_TurnedRound(n_facilities, n_xs) ==
    IF n_xs > 0 /\ n_facilities <= n_xs THEN 1 ELSE 0

\* 1 if len(xs) > 0 and len(facilities) > len(xs) else 0
SharedFlag(n_facilities, n_xs) ==
    IF n_xs > 0 /\ n_facilities > n_xs THEN 1 ELSE 0

SharedTypes(n_facilities, n_phones, n_addresses, n_admins) ==
    SharedFlag(n_facilities, n_phones)
    + SharedFlag(n_facilities, n_addresses)
    + SharedFlag(n_facilities, n_admins)

\* faulty variant: `>=` for `>` at both thresholds
HighRevenueFactor_Inclusive(total_revenue) ==
    IF total_revenue >= 50000000 THEN 20
    ELSE IF total_revenue >= 10000000 THEN 15
    ELSE 10

\* in tenths
HighRevenueFactor(total_revenue) ==
    IF total_revenue > 50000000 THEN 20
    ELSE IF total_revenue > 10000000 THEN 15
    ELSE 10

\* faulty variant: 1.5 for 1.2
NegativeIncomeFactor_Half(negative) == IF negative THEN 15 ELSE 10

\* in tenths
NegativeIncomeFactor(negative) == IF negative THEN 12 ELSE 10

\* faulty variant: (1 + shared_types) for (1 + shared_types * 0.5)
ScoreOf_NoHalf(fac_count, shared_types, high_revenue_factor, negative_income_factor) ==
    fac_count * (2 + 2 * shared_types) * high_revenue_factor * negative_income_factor

\* fac_count * (1 + shared_types * 0.5) * high_revenue_factor
\*   * negative_income_factor, in 200ths
ScoreOf(fac_count, shared_types, high_revenue_factor, negative_income_factor) ==
    fac_count * (2 + shared_types) * high_revenue_factor * negative_income_factor

\* score > 3
Surfaced(score) == score > 600

\* faulty variant: the 3-facility threshold of the summary gates the scoring
SkipsComponent_Below3(n_facilities) == n_facilities < 3

\* len(facilities) < 2: the component is skipped
SkipsComponent(n_facilities) == n_facilities < 2

\* the locals of one iteration of the loop over components that is not
\* skipped
ScoreLocals(g, comp) ==
    LET facs == WithPrefix(comp, "fac")
        owners == WithPrefix(comp, "owner")
        admins == WithPrefix(comp, "admin")
        phones == WithPrefix(comp, "phone")
        addresses == WithPrefix(comp, "addr")
        total_revenue == TotalRevenue(g, facs)
        fac_count == Cardinality(facs)
        shared_types == SharedTypes(Cardinality(facs), Cardinality(phones),
                                    Cardinality(addresses), Cardinality(admins))
        high_revenue_factor == HighRevenueFactor(total_revenue)
        negative_income_factor == NegativeIncomeFactor(AnyNegativeIncome(g, facs))
    IN  [facilities |-> fac_count,
         shared_owners |-> Cardinality(owners),
         shared_admins |-> Cardinality(admins),
         shared_phones |-> Cardinality(phones),
         shared_addresses |-> Cardinality(addresses),
         total_revenue |-> total_revenue,
         total_visits |-> TotalVisits(g, facs),
         shared_types |-> shared_types,
         high_revenue_factor |-> high_revenue_factor,
         negative_income_factor |-> negative_income_factor,
         score |-> ScoreOf(fac_count, shared_types, high_revenue_factor,
                           negative_income_factor)]

\* the entry scores[i] of a surfaced component
RiskScore(g, comp, l) ==
    [score |-> l.score,
     facilities |-> l.facilities,
     shared_owners |-> l.shared_owners,
     shared_admins |-> l.shared_admins,
     shared_phones |-> l.shared_phones,
     shared_addresses |-> l.shared_addresses,
     total_revenue |-> l.total_revenue,
     total_visits |-> l.total_visits,
     has_negative_income |-> AnyNegativeIncome(g, WithPrefix(comp, "fac")),
     component |-> comp]

-----------------------------------------------------------------------------
(* The inputs of the pipeline *)

DigitChars == <<"0", "1", "2", "3", "4", "5", "6", "7", "8", "9">>

\* str(n) of a natural number
RECURSIVE ToChars(_)
ToChars(n) ==
    IF n < 10 THEN <<DigitChars[n + 1]>>
    ELSE ToChars(n \div 10) \o <<DigitChars[(n % 10) + 1]>>

Facility(id, licenseNumber, businessName, contactEmail, phone, addr) ==
    [id |-> id, licenseNumber |-> licenseNumber, businessName |-> businessName,
     contactEmail |-> contactEmail, phone |-> phone,
     address |-> addr.address, city |-> addr.city, zip |-> addr.zip]

FinancialRecord(total_revenue, net_income, medi_cal_visits, medicare_visits) ==
    [total_revenue |-> total_revenue, net_income |-> net_income,
     medi_cal_visits |-> medi_cal_visits, medicare_visits |-> medicare_visits]

NoAddress == [address |-> None, city |-> None, zip |-> None]

\* "1 M", "LA", "90001-2" and " 1 m", "la ", "90001": one normalized address
AddressA == [address |-> <<"1", " ", "M">>, city |-> <<"L", "A">>,
             zip |-> <<"9", "0", "0", "0", "1", "-", "2">>]

AddressB == [address |-> <<" ", "1", " ", "m">>, city |-> <<"l", "a", " ">>,
             zip |-> <<"9", "0", "0", "0", "1">>]

\* "(555)1234567" and "5551234568": two phone numbers
PhoneA == <<"(", "5", "5", "5", ")", "1", "2", "3", "4", "5", "6", "7">>

PhoneB == <<"5", "5", "5", "1", "2", "3", "4", "5", "6", "8">>

OwnerRaws == {None, <<"A", "c", "m", "e">>}

EmailRaws == {None, <<"a", "@", "b">>}

PhoneRaws == {None, PhoneA, PhoneB}

AddressRaws == {NoAddress, AddressA, AddressB}

\* the number of attribute fields a record has
AttributeCount(o, e, p, a) ==
    (IF o # None THEN 1 ELSE 0) + (IF e # None THEN 1 ELSE 0)
    + (IF p # None THEN 1 ELSE 0) + (IF a # NoAddress THEN 1 ELSE 0)

\* the records the i-th position of the input may hold: the facility of id
\* str(i) and license "L" + str(i) with at most MaxAttributes of the raw
\* attributes, or a record without id
FacilityInputs(i) ==
    {r \in {Facility(ToChars(i), <<"L">> \o ToChars(i), x[1], x[2], x[3], x[4]) :
              x \in {y \in OwnerRaws \X EmailRaws \X PhoneRaws \X AddressRaws :
                        AttributeCount(y[1], y[2], y[3], y[4]) <= MaxAttributes}} : TRUE}
    \cup {Facility(None, None, <<"A", "c", "m", "e">>, None, PhoneA, NoAddress)}

\* the financial lookups: each joins facility 1 by its facility number and
\* facility 2 by its license number, and has no record of the others; the
\* revenues total 10,000,000, or 12,000,000, or 60,000,000 with a negative
\* net income
FinancialTables ==
    { (<<"fac", <<"1">>>> :> FinancialRecord(Some(6000000), Some(0), NoneInt, Some(7)))
      @@ (<<"lic", <<"L", "2">>>> :> FinancialRecord(Some(4000000), NoneInt, NoneInt, NoneInt)),
      (<<"fac", <<"1">>>> :> FinancialRecord(Some(6000000), Some(0), Some(10), NoneInt))
      @@ (<<"lic", <<"L", "2">>>> :> FinancialRecord(Some(6000000), Some(5), NoneInt, NoneInt)),
      (<<"fac", <<"1">>>> :> FinancialRecord(Some(40000000), Some(-1), Some(10), NoneInt))
      @@ (<<"lic", <<"L", "2">>>> :> FinancialRecord(Some(20000000), Some(5), NoneInt, NoneInt)) }

-----------------------------------------------------------------------------
(* The pipeline of main(): build_network, analyze_components,
   compute_fraud_scores *)

\* the input lists of n records
RECURSIVE FacilityLists(_)
FacilityLists(n) ==
    IF n = 0 THEN {<<>>}
    ELSE {Append(fs, f) : fs \in FacilityLists(n - 1), f \in FacilityInputs(n)}

\* no normalizer is called on its own
NoCall == [fn |-> "none", args |-> <<>>, results |-> <<>>]

\* no database opened, no FinancialAnalyzer method and no detector under call
NoDb == [facilities |-> <<>>, financials |-> <<>>, fraud_alerts |-> <<>>,
         sequence |-> 0, clock |-> 0]

NoRun == [fn |-> "none"]

NoMl == [fn |-> "none"]

Idle ==
    /\ db = NoDb
    /\ run = NoRun
    /\ ml = NoMl

\* the state at the call of build_network
Start ==
    /\ fi = 0
    /\ G = EmptyGraph
    /\ pc = "build"
    /\ components = <<>>
    /\ ci = 0
    /\ scores = << >>
    /\ locals = << >>
    /\ norm = NoCall
    /\ Idle

Init ==
    /\ facilities \in UNION {FacilityLists(n) : n \in 0..MaxFacilities}
    /\ financial_data \in FinancialTables
    /\ Start

\* build_network: one iteration of `for f in facilities`
BuildStep ==
    /\ pc = "build"
    /\ fi < Len(facilities)
    /\ G' = AddFacility(G, facilities[fi + 1], financial_data)
    /\ fi' = fi + 1
    /\ UNCHANGED <<facilities, financial_data, pc, components, ci, scores, locals, norm, analyzer_vars>>

\* build_network: the list is exhausted, G is returned
BuildReturn ==
    /\ pc = "build"
    /\ fi = Len(facilities)
    /\ pc' = "analyze"
    /\ UNCHANGED <<facilities, financial_data, fi, G, components, ci, scores, locals, norm, analyzer_vars>>

\* analyze_components(G); min(sizes) raises on a graph without nodes
AnalyzeComponents ==
    /\ pc = "analyze"
    /\ IF AnalyzeRaises(G)
       THEN pc' = "error" /\ UNCHANGED components
       ELSE pc' = "score" /\ components' = analyze_components(G)
    /\ UNCHANGED <<facilities, financial_data, fi, G, ci, scores, locals, norm, analyzer_vars>>

\* compute_fraud_scores: one iteration of `for i, comp in enumerate(components)`
ScoreStep ==
    /\ pc = "score"
    /\ ci < Len(components)
    /\ LET comp == components[ci + 1]
           l == ScoreLocals(G, comp)
       IN  IF SkipsComponent(Cardinality(WithPrefix(comp, "fac")))
           THEN UNCHANGED <<scores, locals>>
           ELSE /\ locals' = locals @@ (ci :> l)
                /\ scores' = IF Surfaced(l.score)
                             THEN scores @@ (ci :> RiskScore(G, comp, l))
                             ELSE scores
    /\ ci' = ci + 1
    /\ UNCHANGED <<facilities, financial_data, fi, G, pc, components, norm, analyzer_vars>>

\* compute_fraud_scores: return scores
ScoreReturn ==
    /\ pc = "score"
    /\ ci = Len(components)
    /\ pc' = "done"
    /\ UNCHANGED <<facilities, financial_data, fi, G, components, ci, scores, locals, norm, analyzer_vars>>

Next == BuildStep \/ BuildReturn \/ AnalyzeComponents \/ ScoreStep \/ ScoreReturn

Spec == Init /\ [][Next]_vars

-----------------------------------------------------------------------------------------------------------------------------------------------------
(* The pipeline on cluster inputs: the input is made of one or two clusters,
   each a group of facilities of one owner with given numbers of distinct
   phones, addresses and admin e-mails. *)

\* the k-th phone number of the cluster tagged t: 10 digits
ClusterPhone(t, k) ==
    <<"5", "5", "5">> \o ToChars(t) \o <<"0", "0", "0", "0">> \o ToChars(10 + k)

\* the value facility i of a cluster holds of an attribute with n distinct
\* values: the i-th, the last one being shared by the facilities from n on
ValueIndex(i, n) == IF i < n THEN i ELSE n

\* facility i of the cluster tagged t
ClusterFacility(t, i, n_phones, n_addresses, n_admins) ==
    Facility(ToChars(t) \o <<"-">> \o ToChars(i), None,
             <<"o", "w", "n">> \o ToChars(t),
             IF n_admins = 0 THEN None
             ELSE ToChars(t) \o <<"@">> \o ToChars(ValueIndex(i, n_admins)),
             IF n_phones = 0 THEN None
             ELSE ClusterPhone(t, ValueIndex(i, n_phones)),
             IF n_addresses = 0 THEN NoAddress
             ELSE [address |-> ToChars(t) \o <<" ">> \o ToChars(ValueIndex(i, n_addresses)),
                   city |-> None, zip |-> None])

ClusterFacilities(t, n, n_phones, n_addresses, n_admins) ==
    [i \in 1..n |-> ClusterFacility(t, i, n_phones, n_addresses, n_admins)]

\* the financial records of the first facilities of a cluster
FinancialProfiles ==
    { <<>>,
      <<FinancialRecord(Some(10000000), Some(0), NoneInt, NoneInt)>>,
      <<FinancialRecord(Some(10000000), NoneInt, Some(3), Some(4)),
        FinancialRecord(Some(1), Some(5), NoneInt, NoneInt)>>,
      <<FinancialRecord(Some(40000000), Some(-1), NoneInt, NoneInt),
        FinancialRecord(Some(10000000), NoneInt, NoneInt, NoneInt)>>,
      <<FinancialRecord(Some(40000000), Some(-1), NoneInt, NoneInt),
        FinancialRecord(Some(20000000), Some(3), NoneInt, NoneInt)>>,
      <<FinancialRecord(NoneInt, Some(-7), NoneInt, NoneInt)>>,
      <<FinancialRecord(Some(0), NoneInt, NoneInt, NoneInt),
        FinancialRecord(Some(50000001), Some(0), NoneInt, NoneInt)>> }

\* the lookup joining the first facilities of the cluster tagged t, by
\* facility number, to the records of a profile
ClusterFinancial(t, n, profile) ==
    [k \in {<<"fac", ToChars(t) \o <<"-">> \o ToChars(i)>> :
              i \in 1..(IF Len(profile) < n THEN Len(profile) ELSE n)} |->
        profile[CHOOSE i \in 1..Len(profile) :
                  k = <<"fac", ToChars(t) \o <<"-">> \o ToChars(i)>>]]

\* the second cluster of an input: none, one with the attributes and the
\* financial profile of the first, or one with an owner and nothing else
SecondKinds == {"none", "same", "bare"}

InitClusters ==
    /\ \E n1 \in 1..MaxSmallCluster,
          n_phones \in 0..MaxSmallCluster, n_addresses \in 0..MaxSmallCluster,
          n_admins \in 0..MaxSmallCluster,
          profile \in FinancialProfiles, kind \in SecondKinds,
          n2 \in 1..MaxClusterFacilities :
          /\ n_phones <= n1 /\ n_addresses <= n1 /\ n_admins <= n1
          /\ kind = "none" => n2 = 1
          /\ kind = "same" => n2 > n1 /\ n2 <= MaxSmallCluster + 1
          /\ kind = "bare" => n2 > n1
          /\ facilities =
               ClusterFacilities(1, n1, n_phones, n_addresses, n_admins)
               \o (IF kind = "same"
                   THEN ClusterFacilities(2, n2, n_phones, n_addresses, n_admins)
                   ELSE IF kind = "bare" THEN ClusterFacilities(2, n2, 0, 0, 0)
                   ELSE <<>>)
          /\ financial_data =
               ClusterFinancial(1, n1, profile)
               @@ (IF kind = "same" THEN ClusterFinancial(2, n2, profile) ELSE << >>)
    /\ Start

ClusterSpec == InitClusters /\ [][Next]_vars

-----------------------------------------------------------------------------
(* The vocabulary of the claims, stated on the graph and the components *)

\* the components have been computed
Analyzed == pc \in {"score", "done"}

\* the component of index i (from 0, as enumerate counts)
Comp(i) == components[i + 1]

\* the indices compute_fraud_scores has iterated
Iterated == 0..(ci - 1)

FacilityNodes(comp) == {n \in comp : G.data[n].node_type = "facility"}

AttributeNodes(comp, type) == {n \in comp : G.data[n].node_type = type}

FacilityCount(comp) == Cardinality(FacilityNodes(comp))

\* the attribute types of which the cluster has at least one node and
\* strictly fewer nodes than facilities
ClaimSharedTypes(comp) ==
    Cardinality({type \in {"phone", "address", "admin"} :
                   /\ AttributeNodes(comp, type) # {}
                   /\ Cardinality(AttributeNodes(comp, type)) < FacilityCount(comp)})

\* the sum of the revenues of the facilities of a set, nulls counted as 0
RECURSIVE ClaimRevenueSum(_)
ClaimRevenueSum(facs) ==
    IF facs = {} THEN 0
    ELSE LET n == CHOOSE m \in facs : TRUE
         IN  (IF G.data[n].revenue = NoneInt THEN 0 ELSE G.data[n].revenue[1])
             + ClaimRevenueSum(facs \ {n})

ClaimTotalRevenue(comp) == ClaimRevenueSum(FacilityNodes(comp))

\* 2.0, 1.5 or 1.0, in tenths
ClaimHighRevenueFactor(total) ==
    CASE total > 50000000 -> 20
      [] total > 10000000 /\ total <= 50000000 -> 15
      [] OTHER -> 10

ClaimHasNegativeIncome(comp) ==
    \E n \in FacilityNodes(comp) :
        G.data[n].net_income # NoneInt /\ G.data[n].net_income[1] < 0

\* 1.2 or 1.0, in tenths
ClaimNegativeIncomeFactor(comp) == IF ClaimHasNegativeIncome(comp) THEN 12 ELSE 10

\* facility_count * (1 + 0.5 * shared_types) * high_revenue_factor
\*   * negative_income_factor, in 200ths
ClaimScore(comp) ==
    FacilityCount(comp) * (2 + ClaimSharedTypes(comp))
    * ClaimHighRevenueFactor(ClaimTotalRevenue(comp)) * ClaimNegativeIncomeFactor(comp)

-----------------------------------------------------------------------------
(* C1: compute_fraud_scores emits a RiskScore for a component if and only if
   the component has at least 2 facility nodes and its score is strictly
   greater than 3 (600 in 200ths); no emitted RiskScore has a score <= 3,
   and a component of 2 facilities is not held back by the 3-facility
   threshold of the summary. *)
C1_EmitIffTwoFacilitiesAndScoreAbove3 ==
    /\ DOMAIN scores \subseteq Iterated
    /\ \A i \in Iterated :
          i \in DOMAIN scores
          <=> (FacilityCount(Comp(i)) >= 2 /\ ClaimScore(Comp(i)) > 600)
    /\ \A i \in DOMAIN scores : scores[i].score > 600 /\ scores[i].facilities >= 2

\* a 2-facility cluster is emitted and a cluster whose score is exactly 3
\* is not
C1_Witness ==
    /\ pc = "done"
    /\ \E i \in DOMAIN scores : scores[i].facilities = 2
    /\ \E j \in Iterated :
          /\ FacilityCount(Comp(j)) >= 2
          /\ ClaimScore(Comp(j)) = 600
          /\ j \notin DOMAIN scores

(* C2: for every scored cluster, score = facility_count * (1 + 0.5 *
   shared_types) * high_revenue_factor * negative_income_factor, the
   facility_count being the number of facility nodes of the component; a
   cluster of 4 facilities with two shared attribute types, total revenue
   60,000,000 and one negative net income scores 19.2 (3840 in 200ths). *)
C2_ScoreFormula ==
    \A i \in DOMAIN scores :
        /\ scores[i].score = ClaimScore(Comp(i))
        /\ scores[i].facilities = FacilityCount(Comp(i))
        /\ ( /\ FacilityCount(Comp(i)) = 4
             /\ ClaimSharedTypes(Comp(i)) = 2
             /\ ClaimTotalRevenue(Comp(i)) = 60000000
             /\ ClaimHasNegativeIncome(Comp(i)) )
           => scores[i].score = 3840

\* the cluster of the example is scored 19.2
C2_Witness ==
    \E i \in DOMAIN scores :
        /\ scores[i].facilities = 4
        /\ ClaimSharedTypes(Comp(i)) = 2
        /\ scores[i].total_revenue = 60000000
        /\ scores[i].has_negative_income
        /\ scores[i].score = 3840

(* C3: shared_types of a cluster is the number of attribute types among
   phone, address and admin of which the cluster has at least one node and
   strictly fewer nodes than facility nodes; owner nodes never contribute;
   the value is in 0..3. *)
C3_SharedTypes ==
    \A i \in DOMAIN locals :
        /\ locals[i].shared_types = ClaimSharedTypes(Comp(i))
        /\ locals[i].shared_types \in 0..3

\* a cluster with a shared owner, as many phones as facilities (not
\* counted) and shared addresses and admins (both counted)
C3_Witness ==
    \E i \in DOMAIN locals :
        /\ locals[i].shared_types = 2
        /\ locals[i].shared_phones = locals[i].facilities
        /\ locals[i].shared_owners = 1
        /\ locals[i].shared_addresses = 1
        /\ locals[i].shared_admins = 2
        /\ locals[i].facilities = 3

(* C4: high_revenue_factor is 2.0 when the total revenue of the cluster
   (the sum of its facilities' revenues, nulls counted as 0) is strictly
   greater than 50,000,000, 1.5 when it is strictly greater than 10,000,000
   and at most 50,000,000, and 1.0 otherwise; exactly 10,000,000 gives 1.0
   and exactly 50,000,000 gives 1.5. *)
C4_HighRevenueFactor ==
    \A i \in DOMAIN locals :
        /\ locals[i].total_revenue = ClaimTotalRevenue(Comp(i))
        /\ locals[i].high_revenue_factor = ClaimHighRevenueFactor(ClaimTotalRevenue(Comp(i)))
        /\ ClaimTotalRevenue(Comp(i)) = 10000000 => locals[i].high_revenue_factor = 10
        /\ ClaimTotalRevenue(Comp(i)) = 50000000 => locals[i].high_revenue_factor = 15

\* a cluster whose revenues total exactly 50,000,000 has the factor 1.5
C4_Witness ==
    \E i \in DOMAIN locals :
        /\ ClaimTotalRevenue(Comp(i)) = 50000000
        /\ locals[i].high_revenue_factor = 15

(* C5: negative_income_factor is 1.2 exactly when at least one facility of
   the cluster has a non-null net_income strictly below 0, and 1.0
   otherwise; the emitted has_negative_income is true in the same cases. *)
C5_NegativeIncomeFactor ==
    /\ \A i \in DOMAIN locals :
          /\ locals[i].negative_income_factor \in {10, 12}
          /\ locals[i].negative_income_factor = 12 <=> ClaimHasNegativeIncome(Comp(i))
    /\ \A i \in DOMAIN scores :
          scores[i].has_negative_income <=> ClaimHasNegativeIncome(Comp(i))

\* an emitted cluster with a negative net income, factor 1.2 and the flag
C5_Witness ==
    \E i \in DOMAIN scores :
        /\ ClaimHasNegativeIncome(Comp(i))
        /\ locals[i].negative_income_factor = 12
        /\ scores[i].has_negative_income

\* every risk factor of the cluster is at its maximum
AllFactorsMaxed(comp) ==
    /\ ClaimSharedTypes(comp) = 3
    /\ ClaimHighRevenueFactor(ClaimTotalRevenue(comp)) = 20
    /\ ClaimNegativeIncomeFactor(comp) = 12

\* the cluster has no risk factor
NoRiskFactor(comp) ==
    /\ ClaimSharedTypes(comp) = 0
    /\ ClaimHighRevenueFactor(ClaimTotalRevenue(comp)) = 10
    /\ ClaimNegativeIncomeFactor(comp) = 10

(* C6, as claimed: a 2-facility cluster with every risk factor at its
   maximum never has a greater score than an 8-facility cluster with no
   risk factor. *)
C6_TwoMaxedNeverAboveEightPlain ==
    \A i, j \in DOMAIN locals :
        ( /\ FacilityCount(Comp(i)) = 2 /\ AllFactorsMaxed(Comp(i))
          /\ FacilityCount(Comp(j)) = 8 /\ NoRiskFactor(Comp(j)) )
        => locals[i].score <= locals[j].score

(* C6, amended: a 2-facility cluster with every risk factor at its maximum
   scores 12 (2400 in 200ths); its score is greater than the score of a
   cluster with no risk factor of fewer than 12 facilities, the 8-facility
   one included, and is never greater than the score of a cluster with no
   risk factor of 12 facilities or more. *)
C6_TwoMaxedNeverAboveTwelvePlain ==
    \A i, j \in DOMAIN locals :
        ( /\ FacilityCount(Comp(i)) = 2 /\ AllFactorsMaxed(Comp(i))
          /\ NoRiskFactor(Comp(j)) )
        => /\ locals[i].score = 2400
           /\ locals[i].score <= locals[j].score <=> FacilityCount(Comp(j)) >= 12

\* both clusters have been scored, the plain one having 12 facilities
C6_Witness ==
    \E i, j \in DOMAIN locals :
        /\ FacilityCount(Comp(i)) = 2 /\ AllFactorsMaxed(Comp(i))
        /\ FacilityCount(Comp(j)) = 12 /\ NoRiskFactor(Comp(j))
        /\ locals[i].score = locals[j].score

\* the two clusters have the same numbers of phone, address and admin
\* nodes, the same total revenue and the same negative-income status
SameButSize(c, d) ==
    /\ \A type \in {"phone", "address", "admin"} :
          Cardinality(AttributeNodes(c, type)) = Cardinality(AttributeNodes(d, type))
    /\ ClaimTotalRevenue(c) = ClaimTotalRevenue(d)
    /\ ClaimHasNegativeIncome(c) <=> ClaimHasNegativeIncome(d)

(* C7: scoring is monotone in cluster size: of two clusters with the same
   numbers of phone, address and admin nodes, the same total revenue and
   the same negative-income status, the one with strictly more facility
   nodes has a score greater than or equal to the other's. *)
C7_MonotoneInSize ==
    \A i, j \in DOMAIN locals :
        (SameButSize(Comp(i), Comp(j)) /\ FacilityCount(Comp(i)) > FacilityCount(Comp(j)))
        => locals[i].score >= locals[j].score

\* two such clusters with revenue, the smaller one with one phone per
\* facility, the larger one with more facilities than phones
C7_Witness ==
    \E i, j \in DOMAIN locals :
        /\ SameButSize(Comp(i), Comp(j))
        /\ FacilityCount(Comp(i)) > FacilityCount(Comp(j))
        /\ ClaimTotalRevenue(Comp(j)) > 10000000
        /\ Cardinality(AttributeNodes(Comp(j), "phone")) = FacilityCount(Comp(j))
        /\ locals[j].shared_types < locals[i].shared_types
        /\ locals[i].score > locals[j].score

-----------------------------------------------------------------------------
(* The vocabulary of the end-to-end claims, stated on the input records *)

\* the positions of the input records that have an id
WithId == {k \in 1..Len(facilities) : Truthy(facilities[k].id)}

OwnerKey(f) == normalize_text(f.businessName)

AdminKey(f) == normalize_text(f.contactEmail)

PhoneKey(f) == normalize_phone(f.phone)

AddressKey(f) == normalize_address(f.address, f.city, f.zip)

\* the two records have the same normalized value of the attribute
SameKey(k1, k2) == k1 # None /\ k1 = k2

SharesNothing(f, g) ==
    /\ ~SameKey(OwnerKey(f), OwnerKey(g))
    /\ ~SameKey(AdminKey(f), AdminKey(g))
    /\ ~SameKey(PhoneKey(f), PhoneKey(g))
    /\ ~SameKey(AddressKey(f), AddressKey(g))

\* the node attributes of the facility of an input record
FacilityData(f) == G.data[FacNode(f.id)]

\* the input is three facilities of distinct ids that share one normalized
\* address and share no owner, admin or phone value
ThreeShareAddressOnly ==
    /\ Len(facilities) = 3
    /\ WithId = {1, 2, 3}
    /\ \A k, m \in WithId : k # m =>
          /\ facilities[k].id # facilities[m].id
          /\ SameKey(AddressKey(facilities[k]), AddressKey(facilities[m]))
          /\ ~SameKey(OwnerKey(facilities[k]), OwnerKey(facilities[m]))
          /\ ~SameKey(AdminKey(facilities[k]), AdminKey(facilities[m]))
          /\ ~SameKey(PhoneKey(facilities[k]), PhoneKey(facilities[m]))

\* no facility of the input has a negative net income
NoNegativeIncome ==
    \A k \in WithId :
        \/ FacilityData(facilities[k]).net_income = NoneInt
        \/ FacilityData(facilities[k]).net_income[1] >= 0

\* no facility of the input has a revenue above 10,000,000
NoRevenueAbove10M ==
    \A k \in WithId :
        \/ FacilityData(facilities[k]).revenue = NoneInt
        \/ FacilityData(facilities[k]).revenue[1] <= 10000000

\* one cluster of 3 facilities with shared_types = 1 and exactly one
\* RiskScore, of score 4.5 (900 in 200ths), for it
OneClusterScored4_5 ==
    /\ Cardinality(DOMAIN scores) = 1
    /\ \A i \in DOMAIN scores :
          /\ {FacNode(facilities[k].id) : k \in WithId} \subseteq scores[i].component
          /\ scores[i].facilities = 3
          /\ locals[i].shared_types = 1
          /\ scores[i].score = 900

\* the revenues of the facilities of the input total at most 10,000,000
TotalRevenueAtMost10M ==
    ClaimRevenueSum({FacNode(facilities[k].id) : k \in WithId}) <= 10000000

(* C8, as claimed: three facilities with distinct ids that share one
   normalized address and share no owner, admin or phone value, with no
   revenue above 10,000,000 and no negative income, form one cluster with
   facility_count = 3 and shared_types = 1, and exactly one RiskScore with
   score 4.5 is emitted for it.  "No revenue above 10,000,000" is taken
   here in both of its readings at once, of each facility and of their
   total, so that a violation refutes the claim under either. *)
C8_SharedAddressScores4_5 ==
    ( /\ pc = "done" /\ ThreeShareAddressOnly /\ NoNegativeIncome
      /\ NoRevenueAbove10M /\ TotalRevenueAtMost10M )
    => OneClusterScored4_5

(* C8, amended: three facilities with distinct ids that share one
   normalized address, share no owner value and have no admin and no phone
   value at all, whose revenues total at most 10,000,000 and none of which
   has a negative income, form one cluster with facility_count = 3 and
   shared_types = 1, and exactly one RiskScore with score 4.5 is emitted
   for it. *)
C8_SharedAddressAloneScores4_5 ==
    ( /\ pc = "done" /\ ThreeShareAddressOnly /\ NoNegativeIncome
      /\ \A k \in WithId :
            AdminKey(facilities[k]) = None /\ PhoneKey(facilities[k]) = None
      /\ TotalRevenueAtMost10M )
    => OneClusterScored4_5

\* the three facilities give their address in two raw spellings, one has
\* an owner, the revenues total 10,000,000, and the cluster is scored 4.5
C8_Witness ==
    /\ pc = "done" /\ ThreeShareAddressOnly /\ NoNegativeIncome
    /\ \A k \in WithId :
          AdminKey(facilities[k]) = None /\ PhoneKey(facilities[k]) = None
    /\ \E k, m \in WithId : facilities[k].address # facilities[m].address
    /\ \E k \in WithId : OwnerKey(facilities[k]) # None
    /\ ClaimRevenueSum({FacNode(facilities[k].id) : k \in WithId}) = 10000000
    /\ OneClusterScored4_5

\* the component holding the node
ComponentOf(n) == CHOOSE c \in {components[i] : i \in 1..Len(components)} : n \in c

(* C9: a facility that shares no normalized owner, admin, phone or address
   value with any other facility is never placed in a component with
   another facility; an input of two facilities sharing nothing yields no
   RiskScore, whatever their revenues and net incomes. *)
C9_NothingSharedNoCluster ==
    /\ Analyzed =>
          \A k \in WithId :
              (\A m \in WithId \ {k} : SharesNothing(facilities[k], facilities[m]))
              => FacilityNodes(ComponentOf(FacNode(facilities[k].id)))
                   = {FacNode(facilities[k].id)}
    /\ ( /\ Cardinality(WithId) = 2
         /\ \A k, m \in WithId : k # m => SharesNothing(facilities[k], facilities[m]) )
       => scores = << >>

\* two facilities with different phones, one with an address and an
\* e-mail, of revenues 40,000,000 and 20,000,000 and a negative income:
\* two components, no RiskScore
C9_Witness ==
    /\ pc = "done"
    /\ Cardinality(WithId) = 2
    /\ \A k, m \in WithId : k # m =>
          /\ SharesNothing(facilities[k], facilities[m])
          /\ PhoneKey(facilities[k]) # None
          /\ PhoneKey(facilities[k]) # PhoneKey(facilities[m])
    /\ \E k \in WithId : FacilityData(facilities[k]).revenue = Some(40000000)
    /\ \E k \in WithId : FacilityData(facilities[k]).revenue = Some(20000000)
    /\ ~NoNegativeIncome
    /\ scores = << >>

\* the two facility nodes are adjacent to a common attribute node
CommonAttribute(a, b) ==
    \E n \in Nodes(G) :
        /\ G.data[n].node_type # "facility"
        /\ {a, n} \in Edges(G)
        /\ {b, n} \in Edges(G)

\* the facility nodes a chain of facilities leads to from those of S, each
\* consecutive pair being adjacent to a common attribute node
RECURSIVE ChainFrom(_)
ChainFrom(S) ==
    LET N == S \cup {b \in FacilityNodes(Nodes(G)) : \E a \in S : CommonAttribute(a, b)}
    IN  IF N = S THEN S ELSE ChainFrom(N)

(* C10: the components returned by analyze_components partition the node
   set of the graph, and two facility nodes lie in the same component if
   and only if a chain of facilities joins them in which each consecutive
   pair is adjacent to a common attribute node. *)
C10_ComponentsPartitionByChains ==
    Analyzed =>
        /\ UNION {components[i] : i \in 1..Len(components)} = Nodes(G)
        /\ \A i \in 1..Len(components) : components[i] # {}
        /\ \A i, j \in 1..Len(components) :
              i # j => components[i] \cap components[j] = {}
        /\ \A a, b \in FacilityNodes(Nodes(G)) :
              (\E i \in 1..Len(components) : a \in components[i] /\ b \in components[i])
              <=> b \in ChainFrom({a})

\* three facilities in one component, two of them without a common
\* attribute
C10_Witness ==
    /\ Analyzed
    /\ \E i \in 1..Len(components) :
          /\ FacilityCount(components[i]) = 3
          /\ \E a, b \in FacilityNodes(components[i]) :
                a # b /\ ~CommonAttribute(a, b)

-----------------------------------------------------------------------------
(* The pipeline on raw inputs of poor quality: ids that are null or empty,
   names too short to link, e-mails without "@", phones with too few
   digits, addresses of whitespace only, and no financial file. *)

\* "": an empty str
Empty == <<>>

\* "Acme", and " NA", which normalize_text does not keep
RawOwnerRaws == {None, <<"A", "c", "m", "e">>, <<" ", "N", "A">>}

\* "a@b", and "Acme", which has no "@"
RawEmailRaws == {None, <<"a", "@", "b">>, <<"A", "c", "m", "e">>}

\* "(555)1234567", and "555-1234", which has 7 digits
RawPhoneRaws == {None, PhoneA, <<"5", "5", "5", "-", "1", "2", "3", "4">>}

\* " " with no city and no zip: the normalized address is ""
AddressBlank == [address |-> <<" ">>, city |-> None, zip |-> None]

\* "x" with the zip "y" and no city, and "x" in the city "y" with no zip
AddressStreetZip == [address |-> <<"x">>, city |-> None, zip |-> <<"y">>]

AddressStreetCity == [address |-> <<"x">>, city |-> <<"y">>, zip |-> None]

RawAddressRaws ==
    {NoAddress, AddressA, AddressB, AddressBlank, AddressStreetZip, AddressStreetCity}

\* the records the i-th position of the raw input may hold: the facility of
\* id str(i) with at most MaxRawAttributes of the raw attributes, or a
\* record whose id is null, or one whose id is ""
RawFacilityInputs(i) ==
    {r \in {Facility(ToChars(i), <<"L">> \o ToChars(i), x[1], x[2], x[3], x[4]) :
              x \in {y \in RawOwnerRaws \X RawEmailRaws \X RawPhoneRaws \X RawAddressRaws :
                        AttributeCount(y[1], y[2], y[3], y[4]) <= MaxRawAttributes}} : TRUE}
    \cup {Facility(None, None, <<"A", "c", "m", "e">>, None, None, NoAddress),
          Facility(Empty, None, <<"A", "c", "m", "e">>, None, None, NoAddress)}

RECURSIVE RawFacilityLists(_)
RawFacilityLists(n) ==
    IF n = 0 THEN {<<>>}
    ELSE {Append(fs, f) : fs \in RawFacilityLists(n - 1), f \in RawFacilityInputs(n)}

\* load_financial_data when the file is not found
NoFinancialData == << >>

InitRaw ==
    /\ facilities \in UNION {RawFacilityLists(n) : n \in 0..MaxFacilities}
    /\ financial_data = NoFinancialData
    /\ Start

RawSpec == InitRaw /\ [][Next]_vars

-----------------------------------------------------------------------------
(* The normalizers called on their own, on raw values, and once more on
   their own result. *)

\* the first n digits of a local number: 1234567890 1...
LocalNumber(n) == [i \in 1..n |-> DigitChars[(i % 10) + 1]]

\* the digits with a "-" behind every third one that is not the last
RECURSIVE Dashed(_)
Dashed(digits) ==
    IF Len(digits) <= 3 THEN digits
    ELSE SubSeq(digits, 1, 3) \o <<"-">> \o Dashed(SubSeq(digits, 4, Len(digits)))

\* no country code, "1", "+1 "
CountryCodes == {<<>>, <<"1">>, <<"+", "1", " ">>}

\* the raw phones: null, or a country code and a local number of up to
\* MaxLocalDigits digits, plain or dashed
PhoneCallRaws ==
    {None}
    \cup {cc \o LocalNumber(n) : cc \in CountryCodes, n \in 0..MaxLocalDigits}
    \cup {cc \o Dashed(LocalNumber(n)) : cc \in CountryCodes, n \in 0..MaxLocalDigits}

TextAlphabet == {"A", "b", " "}

\* the strings of length n over the alphabet
RECURSIVE TextsOfLen(_)
TextsOfLen(n) ==
    IF n = 0 THEN {<<>>}
    ELSE {Append(t, c) : t \in TextsOfLen(n - 1), c \in TextAlphabet}

\* the raw texts: null, or a string of up to MaxTextLen characters
TextCallRaws == {None} \cup UNION {TextsOfLen(n) : n \in 0..MaxTextLen}

\* the raw addresses: each component null, empty, of whitespace only or a
\* value with capitals and blanks around it; zips of 3, 5 and 7 characters
\* and one with letters
AddressCallRaws ==
    {None, <<>>, <<" ">>, <<"1", " ", "M">>, <<" ", "1", " ", "m", " ">>}
    \X {None, <<>>, <<"L", "A", " ">>, <<"l", "a">>}
    \X {None, <<>>, <<"9", "0", "0">>, <<"9", "0", "0", "0", "1">>,
         <<" ", "9", "0", "0", "0", "1", "-", "2">>,
         <<"K", "1", "A", " ", "0", "B", "1">>}

NormCalls ==
    {[fn |-> "phone", args |-> <<raw>>, results |-> <<>>] : raw \in PhoneCallRaws}
    \cup {[fn |-> "text", args |-> <<raw>>, results |-> <<>>] : raw \in TextCallRaws}
    \cup {[fn |-> "address", args |-> raw, results |-> <<>>] : raw \in AddressCallRaws}

InitNorm ==
    /\ facilities = <<>>
    /\ financial_data = NoFinancialData
    /\ fi = 0
    /\ G = EmptyGraph
    /\ pc = "normalize"
    /\ components = <<>>
    /\ ci = 0
    /\ scores = << >>
    /\ locals = << >>
    /\ norm \in NormCalls
    /\ Idle

pipeline_vars == <<facilities, financial_data, fi, G, pc, components, ci, scores, locals>>

CallNormalizePhone ==
    /\ pc = "normalize" /\ norm.fn = "phone" /\ norm.results = <<>>
    /\ norm' = [norm EXCEPT !.results = <<normalize_phone(norm.args[1])>>]
    /\ UNCHANGED <<pipeline_vars, analyzer_vars>>

CallNormalizeAddress ==
    /\ pc = "normalize" /\ norm.fn = "address" /\ norm.results = <<>>
    /\ norm' = [norm EXCEPT !.results =
                    <<normalize_address(norm.args[1], norm.args[2], norm.args[3])>>]
    /\ UNCHANGED <<pipeline_vars, analyzer_vars>>

CallNormalizeText ==
    /\ pc = "normalize" /\ norm.fn = "text" /\ norm.results = <<>>
    /\ norm' = [norm EXCEPT !.results = <<normalize_text(norm.args[1])>>]
    /\ UNCHANGED <<pipeline_vars, analyzer_vars>>

\* normalize_phone or normalize_text called on its own non-null result
Renormalize ==
    /\ pc = "normalize" /\ norm.fn \in {"phone", "text"}
    /\ Len(norm.results) = 1 /\ norm.results[1] # None
    /\ norm' = [norm EXCEPT !.results =
                    Append(@, IF norm.fn = "phone" THEN normalize_phone(@[1])
                              ELSE normalize_text(@[1]))]
    /\ UNCHANGED <<pipeline_vars, analyzer_vars>>

NormNext == CallNormalizePhone \/ CallNormalizeAddress \/ CallNormalizeText \/ Renormalize

NormSpec == InitNorm /\ [][NormNext]_vars

-----------------------------------------------------------------------------
(* Order independence of the graph and of the clusters *)

\* the input list in the order given by the permutation q of its positions
Reordered(q) == [i \in 1..Len(facilities) |-> facilities[q[i]]]

\* the records that have an id have distinct ids
DistinctIds == \A j, k \in WithId : facilities[j].id = facilities[k].id => j = k

\* the attribute nodes of a graph, with their attributes
AttributeNodeData(g) == {<<n, g.data[n]>> : n \in {m \in Nodes(g) : ~IsFac(m)}}

\* the partition of the facility nodes into clusters made by a list of components
FacilityPartition(g, cs) ==
    {{n \in cs[i] : g.data[n].node_type = "facility"} : i \in 1..Len(cs)} \ {{}}

(* C11: for facility records with distinct ids and a fixed financial lookup,
   every permutation of the input order given to build_network followed by
   analyze_components yields the same set of attribute nodes, the same set
   of edges and the same partition of the facilities into clusters as the
   order that was run (and raises where the order that was run raised). *)
C11_OrderIndependent ==
    (DistinctIds /\ ((pc = "score" /\ ci = 0) \/ pc = "error"))
    => \A q \in Permutations(1..Len(facilities)) :
          LET g == build_network(Reordered(q), financial_data)
          IN  /\ AttributeNodeData(g) = AttributeNodeData(G)
              /\ g.edges = G.edges
              /\ AnalyzeRaises(g) <=> pc = "error"
              /\ pc = "score" =>
                    FacilityPartition(g, analyze_components(g))
                    = FacilityPartition(G, components)

\* three facilities were clustered two and one, the one that shares nothing
\* standing between the two that share an attribute
C11_Witness ==
    /\ pc = "score" /\ ci = 0 /\ DistinctIds
    /\ Len(facilities) = 3 /\ WithId = {1, 2, 3}
    /\ CommonAttribute(FacNode(facilities[1].id), FacNode(facilities[3].id))
    /\ ComponentOf(FacNode(facilities[2].id)) # ComponentOf(FacNode(facilities[1].id))
    /\ Cardinality(FacilityPartition(G, components)) = 2

-----------------------------------------------------------------------------
(* Shape of the graph during build_network *)

AttributeTypes == {"owner", "admin", "phone", "address"}

(* C12: after build_network has processed any prefix of any input, every
   edge joins exactly one facility node to exactly one attribute node, both
   nodes of the graph, and its edge_type equals the node_type of that
   attribute node; there is no facility-facility and no attribute-attribute
   edge. *)
C12_Bipartite ==
    \A e \in Edges(G) :
        \E u, v \in Nodes(G) :
            /\ e = {u, v}
            /\ G.data[u].node_type = "facility"
            /\ G.data[v].node_type \in AttributeTypes
            /\ G.edges[e] = G.data[v].node_type

\* build_network is inside its loop and has added edges of two types, an
\* address edge among them, two of them at one attribute node
C12_Witness ==
    /\ pc = "build" /\ 0 < fi /\ fi < Len(facilities)
    /\ \E e1, e2, e3 \in Edges(G) :
          /\ G.edges[e1] = "address" /\ G.edges[e2] # "address"
          /\ e3 # e1 /\ e1 \cap e3 # {}
          /\ \A n \in e1 \cap e3 : ~IsFac(n)

-----------------------------------------------------------------------------
(* Attribute nodes and edges against the normalized values of the records *)

\* the positions of the records build_network has processed
Processed == 1..fi

\* the normalized value of the record f for an attribute type
KeyOf(f, type) ==
    CASE type = "owner" -> OwnerKey(f)
      [] type = "admin" -> AdminKey(f)
      [] type = "phone" -> PhoneKey(f)
      [] type = "address" -> AddressKey(f)

\* the processed records that were given a facility node
Added == {k \in Processed : FacNode(facilities[k].id) \in Nodes(G)}

\* the (type, normalized value) pairs encountered so far: the non-null
\* normalized values of the processed records that were not skipped
Encountered ==
    {<<type, KeyOf(facilities[k], type)>> : k \in Added, type \in AttributeTypes}
    \ {<<type, None>> : type \in AttributeTypes}

\* a normalized value that is linked: non-empty and, for an admin,
\* holding an "@"
Linkable(type, key) ==
    /\ key # None /\ key # <<>>
    /\ type = "admin" => \E i \in 1..Len(key) : key[i] = "@"

\* the pairs linked so far
Linked ==
    {p \in {<<type, KeyOf(facilities[k], type)>> : k \in Added, type \in AttributeTypes} :
        Linkable(p[1], p[2])}

\* the attribute nodes of G for the pair p
NodesOf(p) ==
    {n \in Nodes(G) : G.data[n] = [node_type |-> p[1], name |-> p[2]]}

\* the pairs of P stand one to one for the attribute nodes of G, each node
\* with the attributes of its creation
OneNodePerPair(P) ==
    /\ \A p \in P : Cardinality(NodesOf(p)) = 1
    /\ \A n \in Nodes(G) :
          G.data[n].node_type \in AttributeTypes
          => <<G.data[n].node_type, G.data[n].name>> \in P

(* C13, as claimed: after build_network has processed any prefix of any
   input, there is exactly one attribute node per distinct (type, normalized
   value) pair encountered so far, with the attributes of its creation,
   reuse by a later facility included. *)
C13_OneNodePerEncounteredPair == OneNodePerPair(Encountered)

(* C13, amended: after build_network has processed any prefix of any input,
   there is exactly one attribute node per distinct (type, normalized value)
   pair linked so far, a pair being linked when the normalized value is not
   empty and, for the admin type, contains "@"; a later facility with an
   already-seen value reuses the node, and the node keeps the attributes of
   its creation. *)
C13_OneNodePerLinkedPair == OneNodePerPair(Linked)

\* a second facility has reused the address node of a first one, under
\* another raw spelling, and an e-mail without "@" was met
C13_Witness ==
    /\ pc = "build" /\ fi >= 2
    /\ \E j, k \in Processed :
          /\ j < k /\ Truthy(facilities[j].id) /\ Truthy(facilities[k].id)
          /\ facilities[j].address # facilities[k].address
          /\ Linkable("address", AddressKey(facilities[j]))
          /\ AddressKey(facilities[j]) = AddressKey(facilities[k])
          /\ Cardinality(NodesOf(<<"address", AddressKey(facilities[j])>>)) = 1
    /\ Encountered # Linked

\* the facility of record k has the edge of the given type to the attribute
\* node of its normalized value
EdgeTo(k, type) ==
    \E n \in NodesOf(<<type, KeyOf(facilities[k], type)>>) :
        LET e == {FacNode(facilities[k].id), n}
        IN  e \in Edges(G) /\ G.edges[e] = type

(* C14, as claimed: for every facility that has an id and for each of the
   four attribute types, build_network creates the edge from the facility
   to the attribute node of the normalized value if and only if the
   normalizer returns a non-null key. *)
C14_EdgeIffKeyNonNull ==
    \A k \in Added, type \in AttributeTypes :
        EdgeTo(k, type) <=> KeyOf(facilities[k], type) # None

(* C14, amended: for every facility that has an id and for each of the four
   attribute types, build_network creates the edge from the facility to the
   attribute node of the normalized value if and only if the normalizer
   returns a non-null, non-empty key that, for the admin type, contains
   "@". *)
C14_EdgeIffKeyLinkable ==
    \A k \in Added, type \in AttributeTypes :
        EdgeTo(k, type) <=> Linkable(type, KeyOf(facilities[k], type))

\* one facility is linked to its admin node, one with an e-mail without "@"
\* and one with an address of whitespace only are not linked
C14_Witness ==
    \E j, k, l \in Added :
        /\ EdgeTo(j, "admin")
        /\ AdminKey(facilities[k]) # None /\ ~EdgeTo(k, "admin")
        /\ AddressKey(facilities[l]) = <<>> /\ ~EdgeTo(l, "address")

-----------------------------------------------------------------------------
(* Records without id *)

\* the facility nodes of G are those of the processed records in K, and
\* every attribute node is linked to one of them: the other records were
\* skipped without a node or an edge
FacilityNodesAreOf(K) ==
    /\ {n \in Nodes(G) : IsFac(n)} = {FacNode(facilities[k].id) : k \in K}
    /\ \A n \in Nodes(G) :
          ~IsFac(n) => \E k \in K : {FacNode(facilities[k].id), n} \in Edges(G)

(* C15, as claimed: build_network adds a facility node for every input
   record whose id is non-null, and skips, without raising and without
   adding any node or edge, exactly the records whose id is null. *)
C15_SkipsExactlyNullIds ==
    FacilityNodesAreOf({k \in Processed : facilities[k].id # None})

(* C15, amended: build_network adds a facility node for every input record
   whose id is truthy, and skips, without raising and without adding any
   node or edge, exactly the records whose id is missing, null or another
   falsy value such as the empty string. *)
C15_SkipsExactlyFalsyIds ==
    FacilityNodesAreOf({k \in Processed : facilities[k].id # None /\ facilities[k].id # <<>>})

\* a record without id, one with the id "" and one with an id and an owner
\* were processed
C15_Witness ==
    \E j, k, l \in Processed :
        /\ facilities[j].id = None /\ facilities[k].id = <<>>
        /\ FacNode(facilities[l].id) \in Nodes(G) /\ EdgeTo(l, "owner")

(* C16: the structural pipeline is never made to fail by data-quality
   skips: for every input sequence, the empty one and one in which every
   record lacks an id included, build_network, analyze_components and
   compute_fraud_scores all complete without raising, and on a graph
   without nodes they yield no cluster and no RiskScore. *)
C16_NeverRaises ==
    /\ pc # "error"
    /\ (pc = "done" /\ Nodes(G) = {}) => (components = <<>> /\ DOMAIN scores = {})

-----------------------------------------------------------------------------
(* The normalizers *)

\* a normalizer was called and has returned
Returned(fn) == norm.fn = fn /\ norm.results # <<>>

\* the positions of the digit characters of a str
DigitPositions(raw) == {i \in 1..Len(raw) : raw[i] \in Digits}

\* r holds the digit characters of raw, all of them, in their order
IsDigitsOf(r, raw) ==
    /\ Len(r) = Cardinality(DigitPositions(raw))
    /\ \A i \in DigitPositions(raw) :
          r[Cardinality({j \in DigitPositions(raw) : j <= i})] = raw[i]

(* C17: normalize_phone returns the input's digit characters in their
   original order, with nothing else removed (leading country-code digits
   are kept), when at least 10 digits remain, and null in every other case;
   hence an 11-digit rendering keeps its 11 digits and differs from the key
   of the 10-digit rendering of the same number. *)
C17_PhoneDigitsOrNull ==
    Returned("phone") =>
        LET raw == norm.args[1]
            r == norm.results[1]
        IN  IF raw # None /\ Cardinality(DigitPositions(raw)) >= 10
            THEN /\ r # None
                 /\ IsDigitsOf(r, raw)
                 /\ Len(r) = 11 => r # normalize_phone(Tail(r))
            ELSE r = None

\* "+1 234-567-890-1" was normalized: 11 digits, the country code first
C17_Witness ==
    /\ Returned("phone")
    /\ norm.args[1] = <<"+", "1", " ">> \o Dashed(LocalNumber(10))
    /\ Len(norm.results[1]) = 11
    /\ norm.results[1][1] = "1"

\* a component is empty: null or ""
IsEmpty(x) == x = None \/ x = <<>>

\* the parts joined with "|" between them
JoinedKey(parts) ==
    CASE Len(parts) = 1 -> parts[1]
      [] Len(parts) = 2 -> parts[1] \o <<"|">> \o parts[2]
      [] Len(parts) = 3 -> parts[1] \o <<"|">> \o parts[2] \o <<"|">> \o parts[3]

\* a component lower-cased and trimmed
LowerTrimmed(x) == Strip(Lower(x))

\* the first 5 characters of a str
First5(x) == SubSeq(x, 1, IF Len(x) > 5 THEN 5 ELSE Len(x))

\* normalize_address has returned null if and only if its three inputs are
\* empty, and otherwise the key of the components that are present, in the
\* order address, city, zip: the address and the city lower-cased and
\* trimmed, and z for the zip
AddressKeyIs(z) ==
    LET address == norm.args[1]
        city == norm.args[2]
        zip_code == norm.args[3]
        r == norm.results[1]
        parts == (IF IsEmpty(address) THEN <<>> ELSE <<LowerTrimmed(address)>>)
              \o (IF IsEmpty(city) THEN <<>> ELSE <<LowerTrimmed(city)>>)
              \o (IF IsEmpty(zip_code) THEN <<>> ELSE <<z>>)
    IN  /\ r = None <=> (IsEmpty(address) /\ IsEmpty(city) /\ IsEmpty(zip_code))
        /\ r # None => r = JoinedKey(parts)

(* C18: normalize_address returns null if and only if address,
   city and zip are all empty; otherwise it returns the present components,
   each lower-cased and trimmed, with zip truncated to its first 5
   characters, joined by "|" in the order address, city, zip. *)
C18_AddressKeyAllLowerCased ==
    Returned("address") => AddressKeyIs(First5(LowerTrimmed(norm.args[3])))

\* r is the text t without the whitespace at its two ends
IsTrimOf(r, t) ==
    /\ r # <<>> => (r[1] \notin Whitespace /\ r[Len(r)] \notin Whitespace)
    /\ \E a \in 0..Len(t) :
          /\ a + Len(r) <= Len(t)
          /\ \A i \in 1..Len(t) :
                IF a < i /\ i <= a + Len(r) THEN r[i - a] = t[i]
                ELSE t[i] \in Whitespace

\* the number of characters of the text t between its first and its last
\* character that is no whitespace
TrimmedLen(t) ==
    LET P == {i \in 1..Len(t) : t[i] \notin Whitespace}
    IN  IF P = {} THEN 0
        ELSE (CHOOSE i \in P : \A j \in P : j <= i)
             - (CHOOSE i \in P : \A j \in P : i <= j) + 1

(* C19: normalize_text returns the lower-cased, trimmed text when that
   result has more than 2 characters, and null when the input is empty or
   the lower-cased trimmed result has length 2 or less. *)
C19_TextLowerTrimmedOrNull ==
    Returned("text") =>
        LET raw == norm.args[1]
            r == norm.results[1]
        IN  IF ~IsEmpty(raw) /\ TrimmedLen(raw) > 2
            THEN r # None /\ IsTrimOf(r, Lower(raw))
            ELSE r = None

\* " AbA" was normalized to "aba", of 3 characters
C19_Witness ==
    /\ Returned("text")
    /\ norm.args[1] = <<" ", "A", "b", "A">>
    /\ norm.results[1] = <<"a", "b", "a">>
(* C20: normalize_phone and normalize_text are idempotent: either of them,
   applied to its own non-null result, returns that result unchanged. *)
C20_Idempotent ==
    (norm.fn \in {"phone", "text"} /\ Len(norm.results) = 2)
    => norm.results[2] = norm.results[1]

\* a raw value that its normalizer changed was normalized, and the key was
\* normalized once more
C20_Witness ==
    /\ norm.fn \in {"phone", "text"}
    /\ Len(norm.results) = 2
    /\ norm.results[1] # norm.args[1]
    /\ norm.results[2] # None

-----------------------------------------------------------------------------
(* financial_analyzer.py: the statistical outlier detectors.                *)
(* A column value is Some(v), SQL NULL is NoneInt.  total_revenue and       *)
(* net_income are REAL columns, so the quotients of the two queries are     *)
(* true quotients; they are kept here as exact rationals.                   *)

\* the detectors: the largest number of facility rows of a snapshot
MaxPopulation == 12

\* one row of `facilities` and one of `financials` (populate_db.py)
FacilityRow(id, license_number) == [id |-> id, license_number |-> license_number]

FinancialRow(license_number, total_revenue, total_visits, net_income) ==
    [license_number |-> license_number, total_revenue |-> total_revenue,
     total_visits |-> total_visits, net_income |-> net_income]

RECURSIVE Flatten(_)
Flatten(ss) == IF ss = <<>> THEN <<>> ELSE Head(ss) \o Flatten(Tail(ss))

\* FROM facilities f JOIN financials fin ON f.license_number = fin.license_number
\* (NULL = NULL is not true); rows are listed facility by facility
JoinFinancials(d) ==
    Flatten([i \in 1..Len(d.facilities) |->
        LET f == d.facilities[i]
            OnLicense(fin) == /\ f.license_number # NoneInt
                              /\ fin.license_number = f.license_number
            fins == SelectSeq(d.financials, OnLicense)
        IN  [j \in 1..Len(fins) |->
                [id |-> f.id, revenue |-> fins[j].total_revenue,
                 total_visits |-> fins[j].total_visits,
                 net_income |-> fins[j].net_income]]])

Positive(x) == x # NoneInt /\ x[1] > 0

\* the WHERE clause of detect_high_revenue_low_patients
HasRevenueAndVisits(r) == Positive(r.revenue) /\ Positive(r.total_visits)

\* records = cursor.fetchall() of detect_high_revenue_low_patients
RevenueRecords(d) == SelectSeq(JoinFinancials(d), HasRevenueAndVisits)

RECURSIVE ProductOf(_)
ProductOf(S) ==
    IF S = {} THEN 1 ELSE LET v == CHOOSE w \in S : TRUE IN v * ProductOf(S \ {v})

\* a common denominator of the quotients revenue / total_visits of a result
VisitsScale(records) == ProductOf({records[i].total_visits[1] : i \in 1..Len(records)})

\* revenue_per_visit of a row, in units of 1 / scale
revenue_per_visit(r, scale) == r.revenue[1] * (scale \div r.total_visits[1])

\* rev_per_visits: the truthy quotients, in units of 1 / VisitsScale(records)
rev_per_visits(records) ==
    LET TruthyQuotient(r) == revenue_per_visit(r, VisitsScale(records)) # 0
        kept == SelectSeq(records, TruthyQuotient)
    IN  [i \in 1..Len(kept) |-> revenue_per_visit(kept[i], VisitsScale(records))]

\* mean = statistics.mean(rev_per_visits): the rational sum / n
mean(xs) == [sum |-> SumInts(xs), n |-> Len(xs)]

\* m.n * (x - mean)
Dev(m, x) == m.n * x - m.sum

\* Len(xs)^2 * (the sum of the squared deviations from the mean)
SumSqDev(xs) ==
    LET m == mean(xs)
    IN  SumInts([i \in 1..Len(xs) |-> Dev(m, xs[i]) * Dev(m, xs[i])])

\* a faulty variant: statistics.stdev is called on a single value too
stdev_Unguarded(xs) == [raises |-> Len(xs) < 2, sq |-> SumSqDev(xs)]

\* stdev = statistics.stdev(rev_per_visits) if len(rev_per_visits) > 1 else 0
\* sq is Len(xs)^2 * (Len(xs) - 1) * stdev^2, which is zero exactly when
\* stdev is; statistics.stdev raises StatisticsError on fewer than two values
stdev(xs) ==
    IF Len(xs) > 1 THEN [raises |-> FALSE, sq |-> SumSqDev(xs)]
    ELSE [raises |-> FALSE, sq |-> 0]

\* the float 0 of `else 0`
ZeroScore == [raises |-> FALSE, dev |-> 0, n1 |-> 1, sq |-> 1]

\* a faulty variant: the quotient is taken whatever stdev is
z_score_Unguarded(x, m, sd) ==
    [raises |-> sd.sq = 0, dev |-> Dev(m, x), n1 |-> m.n - 1, sq |-> sd.sq]

\* z_score = (revenue_per_visit - mean) / stdev if stdev > 0 else 0
\* the value is dev * sqrt(n1) / sqrt(sq); a division by zero raises
z_score(x, m, sd) ==
    IF sd.sq > 0
    THEN [raises |-> FALSE, dev |-> Dev(m, x), n1 |-> m.n - 1, sq |-> sd.sq]
    ELSE ZeroScore

\* a threshold is the rational n / d, d > 0
Rational(n, d) == [n |-> n, d |-> d]

\* a faulty variant: a score equal to the threshold is above it
AbsAbove_OrEqual(z, t) ==
    IF t.n < 0 THEN TRUE
    ELSE t.d * t.d * z.n1 * z.dev * z.dev >= t.n * t.n * z.sq

\* abs(z_score) > t
AbsAbove(z, t) ==
    IF t.n < 0 THEN TRUE
    ELSE t.d * t.d * z.n1 * z.dev * z.dev > t.n * t.n * z.sq

AbsInt(v) == IF v < 0 THEN 0 - v ELSE v

\* 'high' if abs(z_score) > 3 else 'medium'
HighAbove == 3

\* the alert appended for a record; abs_score is the sort key abs(z_score),
\* in the unit that every score of one call shares
HighRevenueAlert(r, z) ==
    [facility_id |-> r.id, revenue |-> r.revenue[1],
     total_visits |-> r.total_visits[1], z_score |-> z,
     abs_score |-> Rational(AbsInt(z.dev), 1),
     severity |-> IF AbsAbove(z, Rational(HighAbove, 1)) THEN "high" ELSE "medium"]

\* abs(a's score) >= abs(b's score), on the rational sort keys
AbsScoreGE(a, b) == a.abs_score.n * b.abs_score.d >= b.abs_score.n * a.abs_score.d

\* a faulty variant: the alerts stay in the order of the query result
SortByAbsScoreDesc_Unsorted(alerts, sorted) == sorted \o alerts

RECURSIVE InsertByAbsScore(_, _)
InsertByAbsScore(sorted, a) ==
    IF sorted = <<>> THEN <<a>>
    ELSE IF AbsScoreGE(Head(sorted), a)
    THEN <<Head(sorted)>> \o InsertByAbsScore(Tail(sorted), a)
    ELSE <<a>> \o sorted

\* alerts.sort(key=lambda x: abs(x[...]), reverse=True): a stable sort
RECURSIVE SortByAbsScoreDesc(_, _)
SortByAbsScoreDesc(alerts, sorted) ==
    IF alerts = <<>> THEN sorted
    ELSE SortByAbsScoreDesc(Tail(alerts), InsertByAbsScore(sorted, Head(alerts)))

NoAlerts == [raises |-> FALSE, alerts |-> <<>>]

\* detect_high_revenue_low_patients(threshold): [raises, alerts]
detect_high_revenue_low_patients(d, threshold) ==
    LET records == RevenueRecords(d)
        scale == VisitsScale(records)
        xs == rev_per_visits(records)
        m == mean(xs)
        sd == stdev(xs)
        \* for record in records: the truthy quotients and their scores
        scored == [i \in 1..Len(records) |->
                      [record |-> records[i],
                       truthy |-> revenue_per_visit(records[i], scale) # 0,
                       z |-> z_score(revenue_per_visit(records[i], scale), m, sd)]]
        Raises(e) == e.truthy /\ e.z.raises
        Flagged(e) == e.truthy /\ AbsAbove(e.z, threshold)
        flagged == SelectSeq(scored, Flagged)
        alerts == [i \in 1..Len(flagged) |->
                      HighRevenueAlert(flagged[i].record, flagged[i].z)]
    IN  IF records = <<>> THEN NoAlerts
        ELSE IF xs = <<>> THEN NoAlerts
        ELSE IF sd.raises THEN [raises |-> TRUE, alerts |-> <<>>]
        ELSE IF SelectSeq(scored, Raises) # <<>> THEN [raises |-> TRUE, alerts |-> <<>>]
        ELSE [raises |-> FALSE, alerts |-> SortByAbsScoreDesc(alerts, <<>>)]

\* the WHERE clause of detect_extreme_profit_margins
HasRevenueAndIncome(r) == Positive(r.revenue) /\ r.net_income # NoneInt

\* records = cursor.fetchall() of detect_extreme_profit_margins
MarginRecords(d) == SelectSeq(JoinFinancials(d), HasRevenueAndIncome)

\* a faulty variant: a margin equal to a bound is beyond it
MarginFlagged_OrEqual(r, threshold) ==
    \/ r.net_income[1] * threshold.d >= threshold.n * r.revenue[1]
    \/ 5 * r.net_income[1] <= 0 - r.revenue[1]

\* profit_margin > threshold or profit_margin < -0.2,
\* with profit_margin = net_income / revenue and revenue > 0
MarginFlagged(r, threshold) ==
    \/ r.net_income[1] * threshold.d > threshold.n * r.revenue[1]
    \/ 5 * r.net_income[1] < 0 - r.revenue[1]

\* abs(profit_margin) > 0.7
MarginHigh(r) == 10 * AbsInt(r.net_income[1]) > 7 * r.revenue[1]

\* the alert appended for a record; abs_score is abs(profit_margin)
MarginAlert(r) ==
    [facility_id |-> r.id, revenue |-> r.revenue[1], net_income |-> r.net_income[1],
     profit_margin |-> Rational(r.net_income[1], r.revenue[1]),
     abs_score |-> Rational(AbsInt(r.net_income[1]), r.revenue[1]),
     severity |-> IF MarginHigh(r) THEN "high" ELSE "medium"]

\* detect_extreme_profit_margins(threshold): [raises, alerts]
detect_extreme_profit_margins(d, threshold) ==
    LET records == MarginRecords(d)
        Flagged(r) == MarginFlagged(r, threshold)
        flagged == SelectSeq(records, Flagged)
        alerts == [i \in 1..Len(flagged) |-> MarginAlert(flagged[i])]
    IN  [raises |-> FALSE, alerts |-> SortByAbsScoreDesc(alerts, <<>>)]

-----------------------------------------------------------------------------
(* Database snapshots and the specification of the detectors.               *)

\* net_income of the rows, in twentieths of total_revenue, row after row
IncomeTwentieths == <<11, 10, -5, -4, 15, 14, -15, -14, 0, 20>>

IncomeOf(i, revenue) ==
    Some(IncomeTwentieths[((i - 1) % Len(IncomeTwentieths)) + 1] * (revenue \div 20))

Row(i, revenue, visits) ==
    FinancialRow(Some(i), Some(revenue), Some(visits), IncomeOf(i, revenue))

SnapshotPatterns ==
    {"uniform", "high_outlier", "low_outlier", "two_outliers", "two_years", "unusable",
     "all_extreme"}

\* the financials rows that carry the license number of facility i
FinancialsOf(pattern, i) ==
    CASE pattern = "uniform" ->
            IF i % 2 = 1 THEN <<Row(i, 20, 1)>> ELSE <<Row(i, 40, 2)>>
      [] pattern = "high_outlier" ->
            IF i = 1 THEN <<Row(i, 80, 1)>> ELSE <<Row(i, 20, 1)>>
      [] pattern = "low_outlier" ->
            IF i = 1 THEN <<Row(i, 20, 2)>> ELSE <<Row(i, 40, 1)>>
      [] pattern = "two_outliers" ->
            IF i = 1 THEN <<Row(i, 60, 1)>>
            ELSE IF i = 2 THEN <<Row(i, 80, 1)>> ELSE <<Row(i, 20, 1)>>
      [] pattern = "two_years" ->
            IF i = 1 THEN <<Row(i, 80, 1), Row(i, 60, 1)>> ELSE <<Row(i, 20, 1)>>
      [] pattern = "all_extreme" ->
            <<FinancialRow(Some(i), Some(20), Some(1),
                           Some(IF i % 2 = 1 THEN 15 ELSE 11))>>
      [] pattern = "unusable" ->
            IF i = 1 THEN <<FinancialRow(Some(i), Some(80), NoneInt, Some(0))>>
            ELSE IF i = 2 THEN <<FinancialRow(Some(i), Some(80), Some(0), Some(0))>>
            ELSE IF i = 3 THEN <<FinancialRow(Some(i), NoneInt, Some(1), Some(80))>>
            ELSE IF i = 4 THEN <<FinancialRow(Some(i), Some(80), Some(1), NoneInt)>>
            ELSE IF i = 5 THEN <<FinancialRow(Some(i), Some(0), Some(1), Some(80))>>
            ELSE IF i = 6 THEN <<FinancialRow(NoneInt, Some(80), Some(1), Some(80))>>
            ELSE <<Row(i, 20, 1)>>

FacilityOf(pattern, i) ==
    IF pattern = "unusable" /\ i = 6 THEN FacilityRow(i, NoneInt)
    ELSE FacilityRow(i, Some(i))

\* the database with n facilities and no fraud alert
Snapshot(pattern, n) ==
    [facilities |-> [i \in 1..n |-> FacilityOf(pattern, i)],
     financials |-> Flatten([i \in 1..n |-> FinancialsOf(pattern, i)]),
     fraud_alerts |-> <<>>,
     sequence |-> 0,
     clock |-> 0]

\* threshold=2.0 by default
DefaultZThreshold == Rational(2, 1)

ZThresholds == {Rational(0 - 1, 1), Rational(0, 1), Rational(1, 2), DefaultZThreshold,
                Rational(3, 1)}

\* threshold=0.5 by default
DefaultMarginThreshold == Rational(1, 2)

MarginThresholds == {DefaultMarginThreshold, Rational(4, 5)}

DetectorCall(fn, threshold) ==
    [fn |-> fn, threshold |-> threshold, state |-> "called", alerts |-> <<>>]

DetectorCalls ==
    {DetectorCall("detect_high_revenue_low_patients", t) : t \in ZThresholds}
    \cup {DetectorCall("detect_extreme_profit_margins", t) : t \in MarginThresholds}

InitDetect ==
    /\ facilities = <<>>
    /\ financial_data = NoFinancialData
    /\ fi = 0
    /\ G = EmptyGraph
    /\ pc = "detect"
    /\ components = <<>>
    /\ ci = 0
    /\ scores = << >>
    /\ locals = << >>
    /\ norm = NoCall
    /\ db \in {Snapshot(p, n) : p \in SnapshotPatterns, n \in 0..MaxPopulation}
    /\ run \in DetectorCalls
    /\ ml = NoMl

Returning(result) ==
    run' = [run EXCEPT !.state = IF result.raises THEN "raised" ELSE "returned",
                       !.alerts = result.alerts]

DetectHighRevenueLowPatients ==
    /\ pc = "detect"
    /\ run.fn = "detect_high_revenue_low_patients" /\ run.state = "called"
    /\ Returning(detect_high_revenue_low_patients(db, run.threshold))
    /\ UNCHANGED <<pipeline_vars, norm, db, ml>>

DetectExtremeProfitMargins ==
    /\ pc = "detect"
    /\ run.fn = "detect_extreme_profit_margins" /\ run.state = "called"
    /\ Returning(detect_extreme_profit_margins(db, run.threshold))
    /\ UNCHANGED <<pipeline_vars, norm, db, ml>>

DetectNext == DetectHighRevenueLowPatients \/ DetectExtremeProfitMargins

DetectSpec == InitDetect /\ [][DetectNext]_vars

-----------------------------------------------------------------------------
(* The revenue-per-visit detector: the guard on the spread of the           *)
(* population, and the flagging rule.                                       *)

\* the population of the revenue-per-visit detector: the pairs of a facility
\* row and a financials row of its license number with positive revenue and
\* positive visits
Population ==
    {p \in (1..Len(db.facilities)) \X (1..Len(db.financials)) :
        LET f == db.facilities[p[1]]
            fin == db.financials[p[2]]
        IN  /\ f.license_number # NoneInt
            /\ fin.license_number = f.license_number
            /\ fin.total_revenue # NoneInt /\ fin.total_revenue[1] > 0
            /\ fin.total_visits # NoneInt /\ fin.total_visits[1] > 0}

RevenueOf(p) == db.financials[p[2]].total_revenue[1]

TotalVisitsOf(p) == db.financials[p[2]].total_visits[1]

\* every member of the population has the same revenue per visit
ZeroVariance ==
    \A p, q \in Population : RevenueOf(p) * TotalVisitsOf(q) = RevenueOf(q) * TotalVisitsOf(p)

HighRevenueDone ==
    /\ pc = "detect"
    /\ run.fn = "detect_high_revenue_low_patients"
    /\ run.state # "called"

\* C21: when the population of the revenue-per-visit detector has fewer than
\* two members, or all its members have the same revenue per visit, a call at
\* a non-negative threshold returns no alert and raises no error (no division
\* by zero, no standard deviation of a single value).
C21_NoAlertWithoutSpread ==
    (/\ HighRevenueDone
     /\ run.threshold.n >= 0
     /\ (Cardinality(Population) < 2 \/ ZeroVariance))
    => (run.state = "returned" /\ run.alerts = <<>>)

\* two facilities of different revenue and visits but equal revenue per
\* visit, scored at threshold 0
C21_Witness ==
    /\ HighRevenueDone
    /\ run.threshold.n = 0
    /\ Cardinality(Population) >= 2
    /\ ZeroVariance
    /\ \E p, q \in Population : RevenueOf(p) # RevenueOf(q)
    /\ run.state = "returned"

RECURSIVE SumOf(_, _)
SumOf(f, S) ==
    IF S = {} THEN 0
    ELSE LET x == CHOOSE y \in S : TRUE IN f[x] + SumOf(f, S \ {x})

\* twice the revenue per visit of a member (visits are 1 or 2 in the snapshots)
TwiceRevenuePerVisit(p) == (2 * RevenueOf(p)) \div TotalVisitsOf(p)

\* the sum over the population of the differences to member p:
\* 2 * n * (x_p - mean)
SumOfDifferences(p) ==
    SumOf([q \in Population |-> TwiceRevenuePerVisit(p) - TwiceRevenuePerVisit(q)],
          Population)

\* the sum of the squared differences over the ordered pairs of members:
\* 4 * 2 * n * (n - 1) * (sample variance)
SumOfSquaredDifferences ==
    SumOf([p \in Population |->
              SumOf([q \in Population |->
                        (TwiceRevenuePerVisit(p) - TwiceRevenuePerVisit(q))
                        * (TwiceRevenuePerVisit(p) - TwiceRevenuePerVisit(q))],
                    Population)],
          Population)

\* |z| > t for member p, z being (x_p - mean) / (sample standard deviation),
\* and 0 where the standard deviation is 0 or undefined
ZAbove(p, t) ==
    LET n == Cardinality(Population)
    IN  IF t.n < 0 THEN TRUE
        ELSE IF n < 2 \/ SumOfSquaredDifferences = 0 THEN FALSE
        ELSE 2 * t.d * t.d * (n - 1) * SumOfDifferences(p) * SumOfDifferences(p)
                > t.n * t.n * n * SumOfSquaredDifferences

\* the alert is about member p of the population
AlertOf(a, p) ==
    /\ a.facility_id = db.facilities[p[1]].id
    /\ a.revenue = RevenueOf(p)
    /\ a.total_visits = TotalVisitsOf(p)

\* C22: a member of the population is flagged by the revenue-per-visit
\* detector exactly when the absolute value of its z-score (deviation from
\* the mean over the sample standard deviation) exceeds the threshold, once
\* each; a flagged member has severity 'high' exactly when that absolute
\* value exceeds 3, and 'medium' otherwise.
C22_FlaggedIffZAboveThreshold ==
    HighRevenueDone =>
        /\ run.state = "returned"
        /\ \A p \in Population :
              (\E i \in 1..Len(run.alerts) : AlertOf(run.alerts[i], p))
              <=> ZAbove(p, run.threshold)
        /\ Len(run.alerts) = Cardinality({p \in Population : ZAbove(p, run.threshold)})
        /\ \A i \in 1..Len(run.alerts) : \E p \in Population :
              /\ AlertOf(run.alerts[i], p)
              /\ run.alerts[i].severity =
                    IF ZAbove(p, Rational(3, 1)) THEN "high" ELSE "medium"

\* at the default threshold, a population with a 'high' alert and with
\* members that are not flagged
C22_Witness ==
    /\ HighRevenueDone
    /\ run.threshold = Rational(2, 1)
    /\ \E i \in 1..Len(run.alerts) : run.alerts[i].severity = "high"
    /\ \E p \in Population : ~ZAbove(p, run.threshold)

-----------------------------------------------------------------------------
(* The profit-margin detector.                                              *)

\* the records of the profit-margin detector: the pairs of a facility row and
\* a financials row of its license number with positive revenue and a net
\* income
MarginPopulation ==
    {p \in (1..Len(db.facilities)) \X (1..Len(db.financials)) :
        LET f == db.facilities[p[1]]
            fin == db.financials[p[2]]
        IN  /\ f.license_number # NoneInt
            /\ fin.license_number = f.license_number
            /\ fin.total_revenue # NoneInt /\ fin.total_revenue[1] > 0
            /\ fin.net_income # NoneInt}

NetIncomeOf(p) == db.financials[p[2]].net_income[1]

\* the margin net_income / revenue of a record, in twentieths (the net
\* incomes of the snapshots are whole twentieths of the revenue)
MarginTwentieths(p) ==
    IF NetIncomeOf(p) >= 0 THEN (20 * NetIncomeOf(p)) \div RevenueOf(p)
    ELSE 0 - ((20 * (0 - NetIncomeOf(p))) \div RevenueOf(p))

MarginAlertOf(a, p) ==
    /\ a.facility_id = db.facilities[p[1]].id
    /\ a.revenue = RevenueOf(p)
    /\ a.net_income = NetIncomeOf(p)

ExtremeMarginsDone ==
    /\ pc = "detect"
    /\ run.fn = "detect_extreme_profit_margins"
    /\ run.state # "called"

\* C23: at the default threshold, a record with positive revenue and a net
\* income is flagged by detect_extreme_profit_margins exactly when its margin
\* net_income / revenue is above 0.5 or below -0.2, once; a flagged record is
\* 'high' exactly when the absolute margin is above 0.7, and 'medium'
\* otherwise.
C23_FlaggedIffMarginExtreme ==
    (ExtremeMarginsDone /\ run.threshold = Rational(1, 2)) =>
        /\ run.state = "returned"
        /\ \A p \in MarginPopulation :
              (\E i \in 1..Len(run.alerts) : MarginAlertOf(run.alerts[i], p))
              <=> (MarginTwentieths(p) > 10 \/ MarginTwentieths(p) < 0 - 4)
        /\ Len(run.alerts) =
              Cardinality({p \in MarginPopulation :
                              MarginTwentieths(p) > 10 \/ MarginTwentieths(p) < 0 - 4})
        /\ \A i \in 1..Len(run.alerts) : \E p \in MarginPopulation :
              /\ MarginAlertOf(run.alerts[i], p)
              /\ run.alerts[i].severity =
                    IF MarginTwentieths(p) > 14 \/ MarginTwentieths(p) < 0 - 14
                    THEN "high" ELSE "medium"

\* margins of exactly 0.5 and -0.2 left alone, a margin of exactly 0.7 and
\* one of -0.25 flagged 'medium', a margin of -0.75 flagged 'high'
C23_Witness ==
    /\ ExtremeMarginsDone /\ run.threshold = Rational(1, 2)
    /\ \E p, q \in MarginPopulation :
          /\ MarginTwentieths(p) = 10 /\ MarginTwentieths(q) = 0 - 4
          /\ \A i \in 1..Len(run.alerts) :
                ~MarginAlertOf(run.alerts[i], p) /\ ~MarginAlertOf(run.alerts[i], q)
    /\ \E p, q, r \in MarginPopulation : \E i, j, k \in 1..Len(run.alerts) :
          /\ MarginTwentieths(p) = 14 /\ MarginAlertOf(run.alerts[i], p)
          /\ run.alerts[i].severity = "medium"
          /\ MarginTwentieths(q) = 0 - 5 /\ MarginAlertOf(run.alerts[j], q)
          /\ run.alerts[j].severity = "medium"
          /\ MarginTwentieths(r) = 0 - 15 /\ MarginAlertOf(run.alerts[k], r)
          /\ run.alerts[k].severity = "high"

-----------------------------------------------------------------------------
(* The order of the alert lists.                                            *)

MemberOf(a) == CHOOSE p \in Population : AlertOf(a, p)

\* |z| of alert a is at least |z| of alert b: both are deviations from the
\* same mean over the same standard deviation
AbsZAtLeast(a, b) ==
    AbsInt(SumOfDifferences(MemberOf(a))) >= AbsInt(SumOfDifferences(MemberOf(b)))

\* |profit_margin| of alert a is at least that of alert b
AbsMarginAtLeast(a, b) ==
    AbsInt(a.net_income) * b.revenue >= AbsInt(b.net_income) * a.revenue

\* C24: the list a statistical detector returns is in the order of
\* non-increasing absolute score (|z_score|, |profit_margin|), and on a
\* database without facilities or without financial rows the detector
\* returns the empty list and raises nothing.
C24_SortedByAbsScore ==
    /\ HighRevenueDone =>
          /\ \A i \in 1..(Len(run.alerts) - 1) :
                AbsZAtLeast(run.alerts[i], run.alerts[i + 1])
          /\ (db.facilities = <<>> \/ db.financials = <<>>) =>
                (run.state = "returned" /\ run.alerts = <<>>)
    /\ ExtremeMarginsDone =>
          /\ \A i \in 1..(Len(run.alerts) - 1) :
                AbsMarginAtLeast(run.alerts[i], run.alerts[i + 1])
          /\ (db.facilities = <<>> \/ db.financials = <<>>) =>
                (run.state = "returned" /\ run.alerts = <<>>)

\* two alerts whose order in the list is not the order of their facilities
\* in the query result, the first with the strictly larger |z|
C24_Witness ==
    /\ HighRevenueDone
    /\ Len(run.alerts) >= 2
    /\ run.alerts[1].facility_id > run.alerts[2].facility_id
    /\ ~AbsZAtLeast(run.alerts[2], run.alerts[1])

-----------------------------------------------------------------------------
(* ml_fraud_detector.py: the vote of the unsupervised detectors.            *)
(* A detector's predict() gives one flag per sample, 0 = normal and         *)
(* 1 = anomaly; the flags are inputs of the model.                          *)

\* the voters: the largest number of samples (facilities) of a feature matrix
MaxSamples == 3

\* for model_name in ['iforest', 'lof', 'ecod']
ModelNames == <<"iforest", "lof", "ecod">>

\* .head(20) of top_anomalies
TopAnomalies == 20

\* a faulty variant: all the detectors have to agree
Vote_Unanimous(count) == IF count >= 3 THEN 1 ELSE 0

\* (... >= 2).astype(int)
Vote(count) == IF count >= 2 THEN 1 ELSE 0

\* predictions: the flags of the models found in self.models, in the order
\* of the loop
Predictions(m) ==
    LET Trained(name) == name \in m.models
        used == SelectSeq(ModelNames, Trained)
    IN  [k \in 1..Len(used) |-> m.preds[used[k]]]

\* predictions.sum(axis=0), at sample i
SumAt(predictions, i) == SumInts([k \in 1..Len(predictions) |-> predictions[k][i]])

RECURSIVE InsertByAgreement(_, _)
InsertByAgreement(sorted, a) ==
    IF sorted = <<>> THEN <<a>>
    ELSE IF Head(sorted).agreement_count >= a.agreement_count
    THEN <<Head(sorted)>> \o InsertByAgreement(Tail(sorted), a)
    ELSE <<a>> \o sorted

\* .sort_values('agreement_count', ascending=False); rows of equal count
\* are kept in the order of the frame
RECURSIVE SortByAgreementDesc(_, _)
SortByAgreementDesc(rows, sorted) ==
    IF rows = <<>> THEN sorted
    ELSE SortByAgreementDesc(Tail(rows), InsertByAgreement(sorted, Head(rows)))

\* run_ensemble_voting: the frame df with its columns anomaly and
\* agreement_count, and the result stored in self.results['ensemble']
run_ensemble_voting(m) ==
    LET predictions == Predictions(m)
        df == [i \in 1..m.samples |->
                  [sample |-> i,
                   anomaly |-> Vote(SumAt(predictions, i)),
                   agreement_count |-> SumAt(predictions, i)]]
        IsAnomaly(row) == row.anomaly = 1
        anomalies == SortByAgreementDesc(SelectSeq(df, IsAnomaly), <<>>)
    IN  IF m.models = {} THEN [df |-> <<>>, result |-> <<>>]
        ELSE [df |-> df,
              result |-> <<[voting_threshold |-> 2,
                            total_samples |-> m.samples,
                            anomalies_detected |-> Len(anomalies),
                            top_anomalies |->
                                SubSeq(anomalies, 1,
                                       IF Len(anomalies) < TopAnomalies
                                       THEN Len(anomalies) ELSE TopAnomalies)]>>]

\* create_pseudo_labels: y_pseudo, from the three detectors it fits itself
create_pseudo_labels(m) ==
    [i \in 1..m.samples |->
        Vote(m.preds["iforest"][i] + m.preds["lof"][i] + m.preds["ecod"][i])]

FlagVectors(n) == [1..n -> {0, 1}]

\* self.models at the call of run_ensemble_voting
TrainedModels == {{"iforest", "lof", "ecod"}, {"iforest", "lof"}, {"ecod"}, {}}

VoterCalls ==
    UNION {
        {[fn |-> "run_ensemble_voting", state |-> "called", samples |-> n,
          models |-> ms,
          preds |-> [iforest |-> a, lof |-> b, ecod |-> c],
          df |-> <<>>, result |-> <<>>, y_pseudo |-> <<>>] :
              ms \in TrainedModels, a \in FlagVectors(n), b \in FlagVectors(n),
              c \in FlagVectors(n)}
        \cup
        {[fn |-> "create_pseudo_labels", state |-> "called", samples |-> n,
          models |-> {},
          preds |-> [iforest |-> a, lof |-> b, ecod |-> c],
          df |-> <<>>, result |-> <<>>, y_pseudo |-> <<>>] :
              a \in FlagVectors(n), b \in FlagVectors(n), c \in FlagVectors(n)}
        : n \in 1..MaxSamples}

InitVote ==
    /\ facilities = <<>>
    /\ financial_data = NoFinancialData
    /\ fi = 0
    /\ G = EmptyGraph
    /\ pc = "vote"
    /\ components = <<>>
    /\ ci = 0
    /\ scores = << >>
    /\ locals = << >>
    /\ norm = NoCall
    /\ db = NoDb
    /\ run = NoRun
    /\ ml \in VoterCalls

RunEnsembleVoting ==
    /\ pc = "vote"
    /\ ml.fn = "run_ensemble_voting" /\ ml.state = "called"
    /\ ml' = [ml EXCEPT !.state = "returned",
                        !.df = run_ensemble_voting(ml).df,
                        !.result = run_ensemble_voting(ml).result]
    /\ UNCHANGED <<pipeline_vars, norm, db, run>>

CreatePseudoLabels ==
    /\ pc = "vote"
    /\ ml.fn = "create_pseudo_labels" /\ ml.state = "called"
    /\ ml' = [ml EXCEPT !.state = "returned", !.y_pseudo = create_pseudo_labels(ml)]
    /\ UNCHANGED <<pipeline_vars, norm, db, run>>

VoteNext == RunEnsembleVoting \/ CreatePseudoLabels

VoteSpec == InitVote /\ [][VoteNext]_vars

\* the number of the three detectors that flag sample i
FlagCount(i) == Cardinality({name \in {"iforest", "lof", "ecod"} : ml.preds[name][i] = 1})

\* C25: with the three detectors each giving a flag per facility, the
\* pseudo-label create_pseudo_labels returns is 1 exactly for the facilities
\* that at least 2 of the 3 detectors flag; in the frame of
\* run_ensemble_voting the column agreement_count is the number of detectors
\* that flag the facility and stands next to the voted label, which is 1
\* exactly when that number is at least 2.
C25_MajorityVote ==
    /\ (pc = "vote" /\ ml.fn = "create_pseudo_labels" /\ ml.state = "returned") =>
          /\ Len(ml.y_pseudo) = ml.samples
          /\ \A i \in 1..ml.samples :
                ml.y_pseudo[i] = IF FlagCount(i) >= 2 THEN 1 ELSE 0
    /\ (/\ pc = "vote" /\ ml.fn = "run_ensemble_voting" /\ ml.state = "returned"
        /\ ml.models = {"iforest", "lof", "ecod"}) =>
          /\ Len(ml.df) = ml.samples
          /\ \A i \in 1..ml.samples :
                /\ ml.df[i].agreement_count = FlagCount(i)
                /\ ml.df[i].anomaly = IF FlagCount(i) >= 2 THEN 1 ELSE 0

\* a facility flagged by exactly two detectors next to one flagged by one
C25_Witness ==
    /\ pc = "vote" /\ ml.fn = "run_ensemble_voting" /\ ml.state = "returned"
    /\ ml.models = {"iforest", "lof", "ecod"}
    /\ \E i, j \in 1..ml.samples :
          /\ FlagCount(i) = 2 /\ ml.df[i].agreement_count = 2 /\ ml.df[i].anomaly = 1
          /\ FlagCount(j) = 1 /\ ml.df[j].agreement_count = 1 /\ ml.df[j].anomaly = 0

-----------------------------------------------------------------------------
(* financial_analyzer.py: run_full_analysis, save_fraud_alerts and          *)
(* get_fraud_alerts.  db is the committed content of the database, which is *)
(* what another connection reads; run.tx is the content inside the          *)
(* transaction that save_fraud_alerts has open.                             *)

\* the alert table: the largest number of facility rows of a snapshot
MaxAlertFacilities == 21

\* the largest number of calls of run_full_analysis
MaxRuns == 2

\* high_rev_alerts[:20], extreme_margins[:20]
TopN == 20

\* limit: int = 100
DefaultLimit == 100

FirstN(xs, n) == SubSeq(xs, 1, IF Len(xs) < n THEN Len(xs) ELSE n)

\* results['analyses'] of run_full_analysis, the two entries that are saved
Analyses(high_rev_alerts, extreme_margins) ==
    [high_revenue_low_patients |->
        [count |-> Len(high_rev_alerts), alerts |-> FirstN(high_rev_alerts, TopN)],
     extreme_profit_margins |->
        [count |-> Len(extreme_margins), alerts |-> FirstN(extreme_margins, TopN)]]

NoAnalyses == Analyses(<<>>, <<>>)

\* the parameters of the INSERT statements of save_fraud_alerts, in the
\* order of their execution
Inserts(analyses) ==
    [i \in 1..Len(analyses.high_revenue_low_patients.alerts) |->
        [alert_type |-> "high_revenue_per_patient",
         severity |-> analyses.high_revenue_low_patients.alerts[i].severity,
         facility_id |-> analyses.high_revenue_low_patients.alerts[i].facility_id]]
    \o
    [i \in 1..Len(analyses.extreme_profit_margins.alerts) |->
        [alert_type |-> "extreme_profit_margin",
         severity |-> analyses.extreme_profit_margins.alerts[i].severity,
         facility_id |-> analyses.extreme_profit_margins.alerts[i].facility_id]]

\* the table inside a transaction: the rows and the AUTOINCREMENT sequence
Table(rows, sequence) == [rows |-> rows, sequence |-> sequence]

IsNew(row) == row.status = "new"

NotNew(row) == row.status # "new"

\* DELETE FROM fraud_alerts WHERE status = 'new'
DeleteNew(t) == Table(SelectSeq(t.rows, NotNew), t.sequence)

\* INSERT INTO fraud_alerts (alert_type, severity, facility_id, ...):
\* id, detected_at and status take their defaults
InsertAlert(t, values, now) ==
    Table(Append(t.rows,
                 [id |-> t.sequence + 1, alert_type |-> values.alert_type,
                  severity |-> values.severity, facility_id |-> values.facility_id,
                  detected_at |-> now, status |-> "new"]),
          t.sequence + 1)

\* a faulty variant: every statement is committed as it is executed
AfterStatement_Autocommit(d, t) ==
    [d EXCEPT !.fraud_alerts = t.rows, !.sequence = t.sequence]

\* the committed database after a statement of the open transaction:
\* sqlite3.connect leaves the connection in its default mode, in which the
\* DELETE opens a transaction that lasts until conn.commit()
AfterStatement(d, t) == d

\* conn.commit()
AfterCommit(d, t) == [d EXCEPT !.fraud_alerts = t.rows, !.sequence = t.sequence]

\* the characters of a severity
SeverityChars(s) ==
    CASE s = "high" -> <<"h", "i", "g", "h">>
      [] s = "medium" -> <<"m", "e", "d", "i", "u", "m">>
      [] s = "low" -> <<"l", "o", "w">>

CharCode(c) == CHOOSE k \in 1..Len(LowerChars) : LowerChars[k] = c

\* a < b for TEXT values, as SQLite compares them (byte by byte)
RECURSIVE TextLess(_, _)
TextLess(a, b) ==
    IF b = <<>> THEN FALSE
    ELSE IF a = <<>> THEN TRUE
    ELSE IF Head(a) # Head(b) THEN CharCode(Head(a)) < CharCode(Head(b))
    ELSE TextLess(Tail(a), Tail(b))

\* ORDER BY severity DESC, detected_at DESC; the order of rows that agree
\* on both is not defined by the query: by ascending or by descending id
ComesBefore(a, b, asc) ==
    IF a.severity # b.severity
    THEN TextLess(SeverityChars(b.severity), SeverityChars(a.severity))
    ELSE IF a.detected_at # b.detected_at THEN a.detected_at > b.detected_at
    ELSE IF asc THEN a.id < b.id ELSE a.id > b.id

RECURSIVE InsertOrdered(_, _, _)
InsertOrdered(sorted, row, asc) ==
    IF sorted = <<>> THEN <<row>>
    ELSE IF ComesBefore(row, Head(sorted), asc) THEN <<row>> \o sorted
    ELSE <<Head(sorted)>> \o InsertOrdered(Tail(sorted), row, asc)

RECURSIVE OrderBy(_, _, _)
OrderBy(rows, sorted, asc) ==
    IF rows = <<>> THEN sorted
    ELSE OrderBy(Tail(rows), InsertOrdered(sorted, Head(rows), asc), asc)

\* SELECT * FROM fraud_alerts WHERE status = 'new' ORDER BY ..., before LIMIT
SelectNewOrdered(d, asc) == OrderBy(SelectSeq(d.fraud_alerts, IsNew), <<>>, asc)

\* FinancialAnalyzer.get_fraud_alerts(limit), given the ordered selection
get_fraud_alerts(selection, limit) == FirstN(selection, limit)

\* hippocratic_admin.py, GET /api/fraud/alerts: the alerts of the response,
\* given those of the analyzer; severity is None or the value to keep
admin_get_fraud_alerts(alerts, severity) ==
    LET Kept(a) == a.severity = severity
    IN  IF severity = "None" THEN alerts ELSE SelectSeq(alerts, Kept)

\* the snapshots of the alert table: small populations with an outlier, and
\* populations in which every facility has an extreme margin, around the
\* twenty alerts that run_full_analysis keeps
AlertSnapshots ==
    {Snapshot(p, n) : p \in {"high_outlier", "two_years"}, n \in 0..MaxPopulation}
    \cup {Snapshot("all_extreme", n) : n \in (TopN - 1)..MaxAlertFacilities}

NoTable == Table(<<>>, 0)

\* no call of the alerts endpoint yet
NoRead == [state |-> "none", limit |-> 0, severity |-> "None", alerts |-> <<>>,
           analyzer_alerts |-> <<>>]

\* the analyzer before its first run: high_rev_alerts and extreme_margins
\* are the lists of the detectors, analyses what is handed to
\* save_fraud_alerts, tx and pos the open transaction and the number of
\* INSERTs executed, before the committed alert table when
\* save_fraud_alerts was entered, reader the response of the alerts endpoint
\* that is being delivered
InitAlerts ==
    /\ facilities = <<>>
    /\ financial_data = NoFinancialData
    /\ fi = 0
    /\ G = EmptyGraph
    /\ pc = "alerts"
    /\ components = <<>>
    /\ ci = 0
    /\ scores = << >>
    /\ locals = << >>
    /\ norm = NoCall
    /\ db \in AlertSnapshots
    /\ run = [fn |-> "run_full_analysis", state |-> "idle", runs |-> 0,
              high_rev_alerts |-> <<>>, extreme_margins |-> <<>>,
              analyses |-> NoAnalyses, tx |-> NoTable, pos |-> 0,
              before |-> NoTable, reader |-> NoRead]
    /\ ml = NoMl

\* run_full_analysis up to the call of save_fraud_alerts: the detectors at
\* their default thresholds, and the lists cut to their first twenty
RunFullAnalysis ==
    /\ pc = "alerts"
    /\ run.state \in {"idle", "returned", "raised", "save_raised"}
    /\ run.runs < MaxRuns
    /\ LET high == detect_high_revenue_low_patients(db, DefaultZThreshold)
           margins == detect_extreme_profit_margins(db, DefaultMarginThreshold)
       IN  IF high.raises \/ margins.raises
           THEN run' = [run EXCEPT !.state = "raised", !.runs = @ + 1,
                                   !.reader = NoRead]
           ELSE run' = [run EXCEPT !.state = "save", !.runs = @ + 1,
                                   !.reader = NoRead,
                                   !.high_rev_alerts = high.alerts,
                                   !.extreme_margins = margins.alerts,
                                   !.analyses = Analyses(high.alerts, margins.alerts)]
    /\ db' = [db EXCEPT !.clock = @ + 1]
    /\ UNCHANGED <<pipeline_vars, norm, ml>>

\* save_fraud_alerts: connect, and DELETE FROM fraud_alerts WHERE status = 'new'
SaveDelete ==
    /\ pc = "alerts"
    /\ run.state = "save"
    /\ LET t == DeleteNew(Table(db.fraud_alerts, db.sequence))
       IN  /\ run' = [run EXCEPT !.state = "saving", !.tx = t, !.pos = 0,
                                 !.reader = NoRead,
                                 !.before = Table(db.fraud_alerts, db.sequence)]
           /\ db' = AfterStatement(db, t)
    /\ UNCHANGED <<pipeline_vars, norm, ml>>

\* save_fraud_alerts: one INSERT of the two loops
SaveInsert ==
    /\ pc = "alerts"
    /\ run.state = "saving"
    /\ run.pos < Len(Inserts(run.analyses))
    /\ LET t == InsertAlert(run.tx, Inserts(run.analyses)[run.pos + 1], db.clock)
       IN  /\ run' = [run EXCEPT !.tx = t, !.pos = @ + 1, !.reader = NoRead]
           /\ db' = AfterStatement(db, t)
    /\ UNCHANGED <<pipeline_vars, norm, ml>>

\* save_fraud_alerts: conn.commit() and the return of run_full_analysis
SaveCommit ==
    /\ pc = "alerts"
    /\ run.state = "saving"
    /\ run.pos = Len(Inserts(run.analyses))
    /\ db' = AfterCommit(db, run.tx)
    /\ run' = [run EXCEPT !.state = "returned", !.tx = NoTable, !.reader = NoRead]
    /\ UNCHANGED <<pipeline_vars, norm, ml>>

\* save_fraud_alerts: a statement or the commit raises (the disk, a lock),
\* or the process dies; the connection goes away without a commit and
\* SQLite rolls the open transaction back
SaveFails ==
    /\ pc = "alerts"
    /\ run.state = "saving"
    /\ run' = [run EXCEPT !.state = "save_raised", !.tx = NoTable, !.reader = NoRead]
    /\ UNCHANGED <<pipeline_vars, norm, db, ml>>

\* GET /api/fraud/alerts, served by another connection at any moment, one
\* request at a time
GetFraudAlerts ==
    /\ pc = "alerts"
    /\ run.runs > 0
    /\ run.reader.state = "none"
    /\ \E asc \in BOOLEAN :
          LET selection == SelectNewOrdered(db, asc)
          IN  \E limit \in {1, DefaultLimit}, severity \in {"None", "high"} :
                 run' = [run EXCEPT !.reader =
                     [state |-> "returned", limit |-> limit, severity |-> severity,
                      alerts |-> admin_get_fraud_alerts(
                                     get_fraud_alerts(selection, limit), severity),
                      analyzer_alerts |-> get_fraud_alerts(selection, limit)]]
    /\ UNCHANGED <<pipeline_vars, norm, db, ml>>

AlertNext ==
    \/ RunFullAnalysis
    \/ SaveDelete
    \/ SaveInsert
    \/ SaveCommit
    \/ SaveFails
    \/ GetFraudAlerts

AlertSpec == InitAlerts /\ [][AlertNext]_vars

-----------------------------------------------------------------------------
(* The alert table after a run, and under a failing save.                   *)

\* the rows of the committed table that have status 'new'
NewRows == SelectSeq(db.fraud_alerts, IsNew)

RowFor(type, alert) ==
    \E k \in 1..Len(NewRows) :
        /\ NewRows[k].alert_type = type
        /\ NewRows[k].facility_id = alert.facility_id
        /\ NewRows[k].severity = alert.severity
        /\ NewRows[k].detected_at = db.clock

\* C26: after a completed run_full_analysis the rows of status 'new' are
\* exactly the revenue-per-visit and profit-margin alerts the run detected:
\* one row per detected alert, all written by this run (so a second run on
\* the same snapshot leaves the same alerts as the first).
C26_NewRowsAreTheDetectedAlerts ==
    (pc = "alerts" /\ run.state = "returned") =>
        /\ Len(NewRows) = Len(run.high_rev_alerts) + Len(run.extreme_margins)
        /\ \A i \in 1..Len(run.high_rev_alerts) :
              RowFor("high_revenue_per_patient", run.high_rev_alerts[i])
        /\ \A i \in 1..Len(run.extreme_margins) :
              RowFor("extreme_profit_margin", run.extreme_margins[i])
        /\ \A k \in 1..Len(NewRows) : NewRows[k].detected_at = db.clock

\* the committed alert table is the one save_fraud_alerts found
CommittedAsBefore == Table(db.fraud_alerts, db.sequence) = run.before

Range(xs) == {xs[i] : i \in 1..Len(xs)}

\* C27: while save_fraud_alerts has deleted the old 'new' rows and not yet
\* committed, and after it failed at any such point, the committed content
\* of fraud_alerts is what it was before the call; a reader that asks for
\* all alerts then gets exactly the old 'new' rows, never a table without
\* them and with part of the new alerts.
C27_RewriteAllOrNothing ==
    (pc = "alerts" /\ run.state \in {"saving", "save_raised"}) =>
        /\ CommittedAsBefore
        /\ (/\ run.reader.state = "returned"
            /\ run.reader.limit = DefaultLimit
            /\ run.reader.severity = "None") =>
              Range(run.reader.alerts) = Range(SelectSeq(run.before.rows, IsNew))

\* the second run fails between two INSERTs, after the first run had
\* committed its alerts; a reader then still gets the alerts of the first run
C27_Witness ==
    /\ pc = "alerts" /\ run.state = "save_raised"
    /\ run.runs = 2
    /\ run.pos > 0 /\ run.pos < Len(Inserts(run.analyses))
    /\ SelectSeq(run.before.rows, IsNew) # <<>>
    /\ run.reader.state = "returned"
    /\ run.reader.limit = DefaultLimit /\ run.reader.severity = "None"
    /\ run.reader.alerts # <<>>

\* C28: no two rows of fraud_alerts have the same alert_type and the same
\* facility_id.
C28_KeyedByTypeAndFacility ==
    pc = "alerts" =>
        \A i, j \in 1..Len(db.fraud_alerts) :
            (/\ db.fraud_alerts[i].alert_type = db.fraud_alerts[j].alert_type
             /\ db.fraud_alerts[i].facility_id = db.fraud_alerts[j].facility_id)
            => i = j

\* C30: in the list get_fraud_alerts returns every 'high' alert comes before
\* every 'medium' alert, and a 'medium' alert is returned only if every
\* 'new' alert of severity 'high' is returned too.
C30_HighBeforeMedium ==
    (pc = "alerts" /\ run.reader.state = "returned") =>
        LET alerts == run.reader.analyzer_alerts
        IN  /\ \A i, j \in 1..Len(alerts) :
                  (alerts[i].severity = "medium" /\ alerts[j].severity = "high") => j < i
            /\ (\E i \in 1..Len(alerts) : alerts[i].severity = "medium") =>
                  \A k \in 1..Len(NewRows) :
                      NewRows[k].severity = "high" => NewRows[k] \in Range(alerts)

-----------------------------------------------------------------------------
(* Address nodes against the components of the addresses *)

\* the facilities of the records i and j have an edge to one address node
ShareAddressNode(i, j) ==
    \E n \in Nodes(G) :
        /\ G.data[n].node_type = "address"
        /\ {FacNode(facilities[i].id), n} \in Edges(G)
        /\ {FacNode(facilities[j].id), n} \in Edges(G)

\* a component of one record agrees with that of another: both absent, or
\* both present with the same value under the given rendering
Agree(x, y, Rendered(_)) ==
    /\ IsEmpty(x) <=> IsEmpty(y)
    /\ ~IsEmpty(x) => Rendered(x) = Rendered(y)

TrimmedFirst5(x) == First5(Strip(x))

\* C29: two facilities are linked to the same address node only if their
\* addresses agree component by component: the lower-cased trimmed address,
\* the lower-cased trimmed city and the 5-character zip, each absent in both
\* records or present and equal in both.
C29_AddressKeysCollisionFree ==
    \A i, j \in Added :
        ShareAddressNode(i, j) =>
            /\ Agree(facilities[i].address, facilities[j].address, LowerTrimmed)
            /\ Agree(facilities[i].city, facilities[j].city, LowerTrimmed)
            /\ Agree(facilities[i].zip, facilities[j].zip, TrimmedFirst5)

====
